---- MODULE Spec2Model ----
(***************************************************************************)
(* Subscription lifecycle, coupon usage, webhook reconciliation and the    *)
(* seller-advisor matching query of the advisor marketplace backend.       *)
(*                                                                         *)
(* Time is a natural number of ticks of thirty days; a stored Date is a    *)
(* tick or NoDate (field absent).  One year (Date.setFullYear(y + 1)) is   *)
(* YearTicks ticks, the free trial (Date.setDate(d + 30)) is TrialTicks.   *)
(***************************************************************************)
EXTENDS Integers, Sequences, FiniteSets, Bags, TLC

\* ---------------------------------------------------------------- bounds
MaxTime == 1
MaxProviderDate == 1
MaxUsageLimit == 2
MaxRuns == 1
MaxDeliveries == 2
MaxUsedCount == 2
MaxRevenue == 1
MaxYears == 1
MaxPage == 2
MaxJobTime == 2
MaxEmails == 2
MaxIntroductions == 2
MaxHistory == 3

\* ------------------------------------------------------ program constants
YearTicks == 12
TrialTicks == 1

\* ------------------------------------------------------- domain of values
NoDate == -1

Accounts == {"adv1", "adv2"}

\* the account whose subscription lifecycle Spec explores
Subscribers == {"adv1"}

Statuses ==
  {"none", "active", "canceled", "expired", "past_due", "trialing",
   "incomplete", "incomplete_expired", "unpaid"}

\* the statuses the provider reports in the model, plus an unknown one;
\* incomplete_expired and unpaid take the same branches as incomplete and
\* past_due everywhere and are left to them
ProviderStatuses ==
  {"active", "trialing", "past_due", "incomplete", "canceled", "paused"}

VARIABLES
  now,        \* Date.now() / new Date()
  users,      \* the users collection: account -> stored document
  guard,      \* the SubscriptionGuard request in flight, per account
  last,       \* the operation that has just completed
  coupons,    \* the coupons collection: stored code -> document
  history,    \* the paymenthistories collection (a bag of documents)
  procs,      \* the redeemCoupon calls in flight
  stripe,     \* the provider's subscription object of the purchase
  delivered,  \* processed deliveries of the invoice.payment_succeeded event
  advisors,   \* the advisors collection: user id -> profile or NoProfile
  matches,    \* what the last findMatches / getMatchStats call returned
  emails,     \* expiry notices handed to the mailer, counted per account
  sellers,    \* the sellers collection: user id -> profile or NoSeller
  connections,   \* INTRODUCTION connection documents per <<seller, advisor>>
  introductions, \* introduction emails accepted by the mailer, per pair
  confirmation,  \* the outcome of the last confirmPayment call
  payFailed,     \* the handling of the invoice.payment_failed deliveries
  race,          \* the inline renewal and the sweeper's renewal in flight
  jobRun         \* what the last run of a scheduled job did

vars == <<now, users, guard, last, coupons, history, procs, stripe, delivered,
          advisors, matches, emails, sellers, connections, introductions,
          confirmation, payFailed, race, jobRun>>

subVars == <<users, guard, last>>
payVars == <<coupons, history, procs>>
hookVars == <<stripe, delivered>>
matchVars == <<advisors, matches>>
introVars == <<sellers, connections, introductions>>
callVars == <<confirmation, payFailed, race, jobRun>>

\* ------------------------------------------------------------ user schema
NewUser ==
  [status |-> "none",
   currentPeriodStart |-> NoDate,
   currentPeriodEnd |-> NoDate,
   cancelAtPeriodEnd |-> FALSE,
   canceledAt |-> NoDate,
   expiryNotifiedAt |-> NoDate,
   isPaymentVerified |-> FALSE,
   defaultPaymentMethodId |-> FALSE,
   stripeSubscriptionId |-> FALSE]

\* --------------------------------------------------- SubscriptionGuard
\* the check with the period end compared by >= instead of >
isSubscriptionActive_inclusiveEnd(subscription, t) ==
  IF subscription.status \in {"active", "trialing"}
  THEN IF subscription.currentPeriodEnd = NoDate
       THEN TRUE
       ELSE subscription.currentPeriodEnd >= t
  ELSE IF subscription.status = "canceled" /\ subscription.currentPeriodEnd # NoDate
       THEN subscription.currentPeriodEnd >= t
       ELSE FALSE

isSubscriptionActive(subscription, t) ==
  IF subscription.status \in {"active", "trialing"}
  THEN IF subscription.currentPeriodEnd = NoDate
       THEN TRUE
       ELSE subscription.currentPeriodEnd > t
  ELSE IF subscription.status = "canceled" /\ subscription.currentPeriodEnd # NoDate
       THEN subscription.currentPeriodEnd > t
       ELSE FALSE

\* ------------------------------------------------------- UsersService
hasValidCurrentCycle(existing, t) ==
  /\ existing.currentPeriodStart # NoDate
  /\ existing.currentPeriodEnd # NoDate
  /\ existing.currentPeriodStart <= t
  /\ existing.currentPeriodEnd > t

startFrom(existing, t) ==
  IF hasValidCurrentCycle(existing, t) THEN existing.currentPeriodEnd ELSE t

\* billing = TRUE when billingDetails.paymentMethodId is given
markPaymentVerified(existing, t, billing) ==
  [existing EXCEPT
     !.isPaymentVerified = TRUE,
     !.status = "active",
     !.currentPeriodStart = startFrom(existing, t),
     !.currentPeriodEnd = startFrom(existing, t) + YearTicks,
     !.cancelAtPeriodEnd = FALSE,
     !.canceledAt = NoDate,
     !.expiryNotifiedAt = NoDate,
     !.defaultPaymentMethodId = (billing \/ existing.defaultPaymentMethodId)]

shouldBeVerified(details, t) ==
  IF details.status = "canceled" /\ details.currentPeriodEnd # NoDate
  THEN details.currentPeriodEnd > t
  ELSE details.status \in {"active", "trialing"}

\* details carries cancelAtPeriodEnd or has no such field; dates are NoDate
\* when the field is not in the update
updateSubscriptionFromStripe(user, details, t) ==
  [user EXCEPT
     !.status = details.status,
     !.currentPeriodStart =
        IF details.currentPeriodStart # NoDate
        THEN details.currentPeriodStart ELSE @,
     !.currentPeriodEnd =
        IF details.currentPeriodEnd # NoDate
        THEN details.currentPeriodEnd ELSE @,
     !.cancelAtPeriodEnd =
        IF "cancelAtPeriodEnd" \in DOMAIN details
        THEN details.cancelAtPeriodEnd ELSE @,
     !.expiryNotifiedAt =
        IF details.status \in {"active", "trialing"} THEN NoDate ELSE @,
     !.isPaymentVerified = shouldBeVerified(details, t),
     !.stripeSubscriptionId = (details.subscriptionId \/ @),
     !.defaultPaymentMethodId = (details.paymentMethodId \/ @)]

\* a cancel that also revokes the payment verification
cancelSubscriptionAtPeriodEnd_revokes(user, t) ==
  IF user.currentPeriodEnd = NoDate
  THEN user
  ELSE [user EXCEPT
          !.cancelAtPeriodEnd = TRUE,
          !.status = "canceled",
          !.canceledAt = t,
          !.isPaymentVerified = FALSE]

cancelSubscriptionAtPeriodEnd(user, t) ==
  IF user.currentPeriodEnd = NoDate
  THEN user
  ELSE [user EXCEPT
          !.cancelAtPeriodEnd = TRUE,
          !.status = "canceled",
          !.canceledAt = t]

\* a resume without the check of the period end
resumeSubscription_unchecked(user, t) ==
  [user EXCEPT
     !.cancelAtPeriodEnd = FALSE,
     !.status = "active",
     !.canceledAt = NoDate,
     !.isPaymentVerified = TRUE]

resumeSubscription(user, t) ==
  IF user.currentPeriodEnd # NoDate /\ user.currentPeriodEnd > t
  THEN [user EXCEPT
          !.cancelAtPeriodEnd = FALSE,
          !.status = "active",
          !.canceledAt = NoDate,
          !.isPaymentVerified = TRUE]
  ELSE user

\* PaymentService.normalizeSubscriptionStatus
normalizeSubscriptionStatus(status) ==
  IF status \in {"active", "trialing", "past_due", "incomplete",
                 "incomplete_expired", "unpaid", "canceled"}
  THEN status ELSE "none"

\* ------------------------------------------- the provider's subscription
\* status "absent": no subscription has been created.  invoice is the state
\* of latest_invoice ("none" when the object has none); pi tells whether the
\* invoice carries a payment intent; couponCode / exact are
\* metadata.couponCode and whether that string is the stored code letter for
\* letter.
NoSubscription ==
  [status |-> "absent", currentPeriodStart |-> NoDate,
   currentPeriodEnd |-> NoDate, cancelAtPeriodEnd |-> FALSE,
   invoice |-> "none", pi |-> FALSE, couponCode |-> "none", exact |-> TRUE]

\* expandedInvoice.payment_intent || paymentIntent.id || expandedInvoice.id
PaymentIdOf(subscription) ==
  IF subscription.pi THEN <<"pi", 1>> ELSE <<"in", 1>>

HistoryEntry(userId, subscription) ==
  [userId |-> userId, provider |-> "stripe",
   paymentId |-> PaymentIdOf(subscription),
   amount |-> IF subscription.status = "trialing" THEN 0 ELSE 1,
   status |-> IF subscription.invoice = "paid" THEN "succeeded" ELSE "open",
   code |-> "none"]

\* paymentHistoryModel.exists({ userId, paymentId })
HistoryExists(h, userId, paymentId) ==
  \E e \in BagToSet(h) : e.userId = userId /\ e.paymentId = paymentId

\* the recording without the look-up of an existing entry
recordPaymentHistoryFromSubscription_unchecked(h, userId, subscription) ==
  IF subscription.invoice = "none" THEN h
  ELSE h (+) SetToBag({HistoryEntry(userId, subscription)})

recordPaymentHistoryFromSubscription(h, userId, subscription) ==
  IF subscription.invoice = "none" THEN h
  ELSE IF HistoryExists(h, userId, PaymentIdOf(subscription)) THEN h
  ELSE h (+) SetToBag({HistoryEntry(userId, subscription)})

\* the details a handler passes to updateSubscriptionFromStripe; pm = TRUE
\* when the payment method of the subscription could be retrieved
DetailsOf(subscription, pm) ==
  [subscriptionId |-> TRUE,
   status |-> normalizeSubscriptionStatus(subscription.status),
   currentPeriodStart |-> subscription.currentPeriodStart,
   currentPeriodEnd |-> subscription.currentPeriodEnd,
   cancelAtPeriodEnd |-> subscription.cancelAtPeriodEnd,
   paymentMethodId |-> pm]

\* PaymentService.handleStripeSubscriptionEvent: the user after the merge and
\* the payment history after the recording
handleStripeSubscriptionEvent(user, h, userId, subscription, pm, t) ==
  [user |-> updateSubscriptionFromStripe(user, DetailsOf(subscription, pm), t),
   history |->
     IF subscription.status \in {"active", "trialing"}
     THEN recordPaymentHistoryFromSubscription(h, userId, subscription)
     ELSE h]

\* ---------------------------------------------------------- advisor schema
NoProfile == [exists |-> FALSE]

\* a bound of revenueRange that is missing or null
NoBound == -1

\* the response slot when no matching query has just been answered
NoMatches ==
  [op |-> "none", statusCode |-> 0, annualRevenue |-> 0, sortBy |-> "none",
   paged |-> FALSE, list |-> <<>>, totalMatches |-> 0,
   advisorIds |-> {}, emailsSent |-> 0]

\* ------------------------------------------------------------------ Init
\* request.user.role: the accounts of the model are advisors
SellerUsers == {"sel1"}

Requesters == Accounts \cup SellerUsers

role(u) == IF u \in Accounts THEN "advisor" ELSE "seller"

NoError ==
  [statusCode |-> 0, code |-> "none", hasPaymentMethod |-> FALSE,
   redirectTo |-> "none"]

\* the body of the HttpException of the guard
SubscriptionExpired(hasPaymentMethod) ==
  [statusCode |-> 402, code |-> "SUBSCRIPTION_EXPIRED",
   hasPaymentMethod |-> hasPaymentMethod, redirectTo |-> "/advisor-payments"]

\* loaded: the guard has read the account; error: what it has thrown
IdleGuard ==
  [pc |-> "idle", loaded |-> FALSE, active |-> FALSE, result |-> "none",
   error |-> NoError, renewals |-> 0, hasPaymentMethod |-> FALSE]

NoOp == [op |-> "none", a |-> "adv1"]

Codes == {"TRIAL", "SAVE"}

Coupon(type, isActive, expiresAt, usageLimit) ==
  [type |-> type, isActive |-> isActive, expiresAt |-> expiresAt,
   usageLimit |-> usageLimit, usedCount |-> 0]

IdleProc == [pc |-> "idle", submitted |-> <<>>, code |-> "TRIAL",
             exact |-> TRUE, outcome |-> "none", runs |-> 0]

Procs == {"p1", "p2"}

\* the account on whose behalf a call runs
Acct(p) == IF p = "p1" THEN "adv1" ELSE "adv2"

SubInit ==
  /\ now = 0
  /\ users = [a \in Accounts |-> NewUser]
  /\ guard = [a \in Requesters |-> IdleGuard]
  /\ last = NoOp

PayIdle ==
  /\ coupons = [c \in Codes |->
       IF c = "TRIAL" THEN Coupon("free_trial", TRUE, NoDate, 1)
       ELSE Coupon("percentage", TRUE, NoDate, 0)]
  /\ history = EmptyBag
  /\ procs = [p \in Procs |-> IdleProc]

HookIdle ==
  /\ stripe = NoSubscription
  /\ delivered = 0

MatchIdle ==
  /\ advisors = [a \in Accounts |-> NoProfile]
  /\ matches = NoMatches

JobIdle ==
  emails = [a \in Accounts |-> 0]

\* no confirmPayment call has been answered
NoConfirmation ==
  [op |-> "none", a |-> "adv1", paymentIntentId |-> <<"pi", 0>>,
   success |-> FALSE]

\* no invoice.payment_failed event has been delivered
NoFailure ==
  [deliveries |-> 0, attempts |-> 0, retry |-> "none", email |-> "none"]

\* neither renewal path has started; snap is the subscription object the
\* path got from stripe.subscriptions.update
IdleRenewal == [pc |-> "idle", snap |-> NoSubscription]

NoRace == [inline |-> IdleRenewal, sweeper |-> IdleRenewal]

\* no scheduled job has run; selected: the accounts the query of the run
\* returned, processed: those whose loop body ran, failed: those whose
\* body threw, propagated: an error left the job
NoRun ==
  [op |-> "none", selected |-> {}, processed |-> {}, failed |-> {},
   propagated |-> FALSE]

CallIdle ==
  /\ confirmation = NoConfirmation
  /\ payFailed = NoFailure
  /\ race = NoRace
  /\ jobRun = NoRun

\* a seller account without a seller profile
NoSeller == [exists |-> FALSE]

IntroIdle ==
  /\ sellers = [s \in SellerUsers |-> NoSeller]
  /\ connections = [pair \in SellerUsers \X Accounts |-> 0]
  /\ introductions = [pair \in SellerUsers \X Accounts |-> 0]

Init ==
  /\ SubInit
  /\ PayIdle
  /\ HookIdle
  /\ MatchIdle
  /\ JobIdle
  /\ IntroIdle
  /\ CallIdle

\* --------------------------------------------------------------- actions
TickTo(limit) ==
  /\ now < limit
  /\ now' = now + 1
  /\ last' = NoOp
  /\ UNCHANGED <<callVars, emails, users, guard, payVars, hookVars, matchVars, introVars>>

Tick == TickTo(MaxTime)

Done(op, a) == last' = [op |-> op, a |-> a]

MarkPaymentVerified(a) ==
  \E billing \in BOOLEAN :
    /\ users' = [users EXCEPT ![a] = markPaymentVerified(users[a], now, billing)]
    /\ Done("markPaymentVerified", a)
    /\ UNCHANGED <<callVars, emails, now, guard, payVars, hookVars, matchVars, introVars>>

\* what the provider reports for a subscription: both period bounds or none
ProviderWindows ==
  {<<NoDate, NoDate>>} \cup
  {w \in (0..MaxProviderDate) \X (0..MaxProviderDate) : w[1] < w[2]}

\* customer.subscription.created / updated / deleted for a subscription object
\* that carries no latest_invoice
HandleStripeSubscriptionEvent(a) ==
  \E st \in ProviderStatuses, w \in ProviderWindows, cape \in BOOLEAN,
     pm \in BOOLEAN :
    LET subscription ==
          [NoSubscription EXCEPT !.status = st,
                                 !.currentPeriodStart = w[1],
                                 !.currentPeriodEnd = w[2],
                                 !.cancelAtPeriodEnd = cape]
        r == handleStripeSubscriptionEvent(users[a], history, a,
                                           subscription, pm, now)
    IN /\ users' = [users EXCEPT ![a] = r.user]
       /\ history' = r.history
       /\ Done("subscriptionEvent", a)
       /\ UNCHANGED <<callVars, emails, now, guard, coupons, procs, hookVars, matchVars, introVars>>

\* PaymentService.cancelAtPeriodEnd
CancelAtPeriodEnd(a) ==
  /\ users' = [users EXCEPT ![a] = cancelSubscriptionAtPeriodEnd(users[a], now)]
  /\ Done("cancelAtPeriodEnd", a)
  /\ UNCHANGED <<callVars, emails, now, guard, payVars, hookVars, matchVars, introVars>>

\* PaymentService.resume
Resume(a) ==
  /\ users' = [users EXCEPT ![a] = resumeSubscription(users[a], now)]
  /\ Done("resume", a)
  /\ UNCHANGED <<callVars, emails, now, guard, payVars, hookVars, matchVars, introVars>>

\* the conditions of the inline renewal, with the one on the status left out
shouldAttemptRenewal_anyStatus(status, hasPaymentMethod) ==
  hasPaymentMethod

\* status !== 'canceled' && hasPaymentMethod
shouldAttemptRenewal(status, hasPaymentMethod) ==
  status # "canceled" /\ hasPaymentMethod

\* the request blocked: the guard throws the 402 HttpException
deny(g) ==
  [g EXCEPT !.pc = "done", !.result = "402",
            !.error = SubscriptionExpired(g.hasPaymentMethod)]

\* SubscriptionGuard.canActivate up to the first await after the load
GuardLoad(a) ==
  /\ guard[a].pc = "idle"
  /\ guard' = [guard EXCEPT ![a] =
       IF role(a) # "advisor"
       THEN [IdleGuard EXCEPT !.pc = "done", !.result = "allow"]
       ELSE LET subscription == users[a]
                isActive == isSubscriptionActive(subscription, now)
                hasPaymentMethod == users[a].defaultPaymentMethodId
                loaded == [IdleGuard EXCEPT
                             !.loaded = TRUE,
                             !.active = isActive,
                             !.hasPaymentMethod = hasPaymentMethod]
            IN IF isActive
               THEN [loaded EXCEPT !.pc = "done", !.result = "allow"]
               ELSE IF shouldAttemptRenewal(subscription.status,
                                            hasPaymentMethod)
                    THEN [loaded EXCEPT !.pc = "renewing"]
                    ELSE deny(loaded)]
  /\ last' = NoOp
  /\ UNCHANGED <<callVars, emails, now, users, payVars, hookVars, matchVars, introVars>>

\* a renewal whose error reaches the caller
afterRenewalError_rethrows(g) ==
  [g EXCEPT !.pc = "done", !.result = "500", !.renewals = @ + 1]

\* the catch block around attemptAutoRenewal: the error is logged and the
\* request falls through to the 402
afterRenewalError(g) ==
  deny([g EXCEPT !.renewals = @ + 1])

\* attemptAutoRenewal -> PaymentService.renewSubscription; ok = FALSE when the
\* provider call throws.  statuses, windows: what the provider may report for
\* the subscription
GuardRenewWith(a, statuses, windows) ==
  /\ guard[a].pc = "renewing"
  /\ \E ok \in BOOLEAN, st \in statuses, w \in windows :
       IF ok /\ users[a].defaultPaymentMethodId /\ users[a].stripeSubscriptionId
       THEN /\ users' = [users EXCEPT ![a] =
                 updateSubscriptionFromStripe(users[a],
                   [subscriptionId |-> TRUE,
                    status |-> normalizeSubscriptionStatus(st),
                    currentPeriodStart |-> w[1],
                    currentPeriodEnd |-> w[2],
                    cancelAtPeriodEnd |-> FALSE,
                    paymentMethodId |-> FALSE], now)]
            /\ Done("renewSubscription", a)
            /\ guard' = [guard EXCEPT ![a].pc = "recheck",
                                      ![a].renewals = @ + 1]
       ELSE /\ guard' = [guard EXCEPT ![a] = afterRenewalError(guard[a])]
            /\ last' = NoOp
            /\ UNCHANGED users
  /\ UNCHANGED <<callVars, emails, now, payVars, hookVars, matchVars, introVars>>

GuardRenew(a) == GuardRenewWith(a, ProviderStatuses, ProviderWindows)

\* the reload after the renewal attempt
GuardRecheck(a) ==
  /\ guard[a].pc = "recheck"
  /\ LET isActive == isSubscriptionActive(users[a], now)
     IN guard' = [guard EXCEPT ![a] =
          IF isActive
          THEN [guard[a] EXCEPT !.pc = "done", !.active = TRUE,
                                !.result = "allow"]
          ELSE deny(guard[a])]
  /\ last' = NoOp
  /\ UNCHANGED <<callVars, emails, now, users, payVars, hookVars, matchVars, introVars>>

\* the request is over; the next one starts from scratch
GuardReturn(a) ==
  /\ guard[a].pc = "done"
  /\ guard' = [guard EXCEPT ![a] = IdleGuard]
  /\ last' = NoOp
  /\ UNCHANGED <<callVars, emails, now, users, payVars, hookVars, matchVars, introVars>>

Next ==
  \/ Tick
  \/ \E a \in Subscribers : MarkPaymentVerified(a)
  \/ \E a \in Subscribers : HandleStripeSubscriptionEvent(a)
  \/ \E a \in Subscribers : CancelAtPeriodEnd(a)
  \/ \E a \in Subscribers : Resume(a)
  \/ \E a \in Subscribers \cup SellerUsers : GuardLoad(a)
  \/ \E a \in Subscribers : GuardRenew(a)
  \/ \E a \in Subscribers : GuardRecheck(a)
  \/ \E a \in Subscribers \cup SellerUsers : GuardReturn(a)

Spec == Init /\ [][Next]_vars

\* ====================================================== coupon redemption

SubmittedCodes == Codes \cup {"BOGUS"}

\* PaymentService.validateCoupon: the outcome for a submitted code whose
\* trimmed upper-case form is code (the regex match ignores case)
validateCoupon(code, t) ==
  IF code \notin Codes \/ ~coupons[code].isActive THEN "NotFound"
  ELSE IF coupons[code].expiresAt # NoDate /\ coupons[code].expiresAt < t
       THEN "BadRequest: expired"
  ELSE IF coupons[code].usageLimit # 0
          /\ coupons[code].usedCount >= coupons[code].usageLimit
       THEN "BadRequest: usage limit reached"
  ELSE "ok"

\* couponModel.findOneAndUpdate({ code }, { $inc: { usedCount: 1 } }): the
\* filter is the submitted string, matched exactly
incrementUsage(code, exact) ==
  IF code \in Codes /\ exact
  THEN [coupons EXCEPT ![code].usedCount = @ + 1]
  ELSE coupons

\* the letters of the stored codes
Letters ==
  [TRIAL |-> <<"T", "R", "I", "A", "L">>, SAVE |-> <<"S", "A", "V", "E">>]

\* the strings a client submits: a stored code, one in lower case with a
\* blank after it, a code of no coupon, one with a regular-expression
\* wildcard, and one that is no regular expression
Submissions ==
  {Letters["TRIAL"], <<"t", "r", "i", "a", "l", " ">>, Letters["SAVE"],
   <<"B", "O", "G", "U", "S">>, <<"T", "R", "I", "A", ".">>, <<"(">>}

LowerToUpper ==
  [t |-> "T", r |-> "R", i |-> "I", a |-> "A", l |-> "L"]

\* String.prototype.toUpperCase, letter by letter
UpperOf(c) == IF c \in DOMAIN LowerToUpper THEN LowerToUpper[c] ELSE c

toUpperCase(str) == [i \in DOMAIN str |-> UpperOf(str[i])]

\* String.prototype.trim
RECURSIVE trimStart(_)
trimStart(str) ==
  IF str # <<>> /\ Head(str) = " " THEN trimStart(Tail(str)) ELSE str

RECURSIVE trimEnd(_)
trimEnd(str) ==
  IF str # <<>> /\ str[Len(str)] = " "
  THEN trimEnd(SubSeq(str, 1, Len(str) - 1)) ELSE str

trim(str) == trimEnd(trimStart(str))

normalizedCode(code) == toUpperCase(trim(code))

\* new RegExp(`^${normalizedCode}$`, 'i') throws a SyntaxError for a source
\* with an unterminated group
wellFormed(source) == \A i \in DOMAIN source : source[i] # "("

\* { $regex: new RegExp(`^${source}$`, 'i') } for a source of letters, blanks
\* and dots: "." matches any letter, a letter matches itself in either case
regexMatches(source, text) ==
  /\ Len(source) = Len(text)
  /\ \A i \in DOMAIN source :
       source[i] = "." \/ UpperOf(source[i]) = UpperOf(text[i])

\* the stored codes that the query of validateCoupon matches
findOne(code) ==
  {c \in Codes : regexMatches(normalizedCode(code), Letters[c])}

\* redeemCoupon up to the end of validateCoupon and the type check; the call
\* keeps the coupon that was found (code) and whether the submitted string
\* is its code letter for letter (exact)
RedeemValidate(p) ==
  /\ procs[p].pc = "idle"
  /\ \E submitted \in Submissions :
       IF ~wellFormed(normalizedCode(submitted))
       THEN procs' = [procs EXCEPT ![p] =
              [@ EXCEPT !.pc = "done", !.submitted = submitted,
                        !.code = "BOGUS", !.exact = FALSE,
                        !.outcome = "SyntaxError"]]
       ELSE \E code \in (IF findOne(submitted) = {} THEN {"BOGUS"}
                         ELSE findOne(submitted)) :
              LET v == validateCoupon(code, now)
                  outcome == IF v # "ok" THEN v
                             ELSE IF coupons[code].type # "free_trial"
                                  THEN "BadRequest: not a free trial"
                                  ELSE "none"
              IN procs' = [procs EXCEPT ![p] =
                   [@ EXCEPT !.pc = IF outcome = "none" THEN "mark" ELSE "done",
                             !.submitted = submitted,
                             !.code = code,
                             !.exact = (code \in Codes
                                          /\ Letters[code] = submitted),
                             !.outcome = outcome]]
  /\ UNCHANGED <<callVars, emails, now, subVars, coupons, history, hookVars, matchVars, introVars>>

\* usersService.markPaymentVerified(userId)
RedeemMark(p) ==
  /\ procs[p].pc = "mark"
  /\ users' = [users EXCEPT ![Acct(p)] = markPaymentVerified(@, now, FALSE)]
  /\ procs' = [procs EXCEPT ![p].pc = "trial"]
  /\ UNCHANGED <<callVars, emails, now, guard, last, coupons, history, hookVars, matchVars, introVars>>

\* a trial that keeps the year of markPaymentVerified
trialWindow_oneYear(user, t) ==
  [user EXCEPT !.status = "active",
               !.cancelAtPeriodEnd = FALSE,
               !.canceledAt = NoDate]

\* the thirty-day window written over the subscription of the returned user
trialWindow(user, t) ==
  [user EXCEPT !.status = "active",
               !.currentPeriodStart = t,
               !.currentPeriodEnd = t + TrialTicks,
               !.cancelAtPeriodEnd = FALSE,
               !.canceledAt = NoDate]

RedeemTrial(p) ==
  /\ procs[p].pc = "trial"
  /\ users' = [users EXCEPT ![Acct(p)] = trialWindow(@, now)]
  /\ procs' = [procs EXCEPT ![p].pc = "history"]
  /\ UNCHANGED <<callVars, emails, now, guard, last, coupons, history, hookVars, matchVars, introVars>>

\* paymentHistoryModel.create for the trial activation
RedeemHistory(p) ==
  /\ procs[p].pc = "history"
  /\ history' = history (+) SetToBag({
       [userId |-> Acct(p), provider |-> "coupon",
        paymentId |-> <<"trial", now>>, amount |-> 0,
        status |-> "succeeded", code |-> procs[p].code]})
  /\ procs' = [procs EXCEPT ![p].pc = "increment"]
  /\ UNCHANGED <<callVars, emails, now, subVars, coupons, hookVars, matchVars, introVars>>

\* the usage update that ends a successful redemption
RedeemIncrement(p) ==
  /\ procs[p].pc = "increment"
  /\ coupons' = incrementUsage(procs[p].code, procs[p].exact)
  /\ procs' = [procs EXCEPT ![p].pc = "done", ![p].outcome = "success"]
  /\ UNCHANGED <<callVars, emails, now, subVars, history, hookVars, matchVars, introVars>>

\* the call has returned; the client may call again
RedeemReturn(p) ==
  /\ procs[p].pc = "done"
  /\ procs[p].runs < MaxRuns
  /\ procs' = [procs EXCEPT ![p] = [IdleProc EXCEPT !.runs = procs[p].runs + 1]]
  /\ UNCHANGED <<callVars, emails, now, subVars, coupons, history, hookVars, matchVars, introVars>>

CouponInit ==
  /\ SubInit
  /\ \E active \in BOOLEAN, expiresAt \in {NoDate, 0}, limit \in 0..MaxUsageLimit :
       coupons = [c \in Codes |->
         IF c = "TRIAL" THEN Coupon("free_trial", active, expiresAt, limit)
         ELSE Coupon("percentage", TRUE, NoDate, 0)]
  /\ history = EmptyBag
  /\ procs = [p \in Procs |-> IdleProc]
  /\ HookIdle
  /\ MatchIdle
  /\ JobIdle
  /\ IntroIdle
  /\ CallIdle

CouponNext ==
  \/ Tick
  \/ \E p \in Procs : RedeemValidate(p)
  \/ \E p \in Procs : RedeemMark(p)
  \/ \E p \in Procs : RedeemTrial(p)
  \/ \E p \in Procs : RedeemHistory(p)
  \/ \E p \in Procs : RedeemIncrement(p)
  \/ \E p \in Procs : RedeemReturn(p)

CouponSpec == CouponInit /\ [][CouponNext]_vars

\* the calls of one client, one after the other
Callers == {"p1"}

RedeemNext ==
  \/ Tick
  \/ \E p \in Callers : RedeemValidate(p)
  \/ \E p \in Callers : RedeemMark(p)
  \/ \E p \in Callers : RedeemTrial(p)
  \/ \E p \in Callers : RedeemHistory(p)
  \/ \E p \in Callers : RedeemIncrement(p)
  \/ \E p \in Callers : RedeemReturn(p)

RedeemSpec == CouponInit /\ [][RedeemNext]_vars

\* =================================================== purchase and webhooks
\* One subscription purchase of one account.  The provider delivers an event
\* again only after the previous delivery has been answered, and the client
\* calls one endpoint at a time, so every handler below runs to its end
\* before the next one starts.

Buyer == "adv1"

\* incrementCouponUsage(subscription.metadata.couponCode)
incrementCouponUsage(subscription) ==
  IF subscription.couponCode = "none" THEN coupons
  ELSE incrementUsage(subscription.couponCode, subscription.exact)

\* the usedCount the purchase has driven so far
UsedBy(subscription) ==
  IF subscription.couponCode \in Codes
  THEN coupons[subscription.couponCode].usedCount ELSE 0

\* PaymentService.createSubscription.  created is the status the provider
\* gives a subscription without a trial; reports tells whether the object
\* carries current_period_start / current_period_end
CreateSubscription(a) ==
  /\ stripe.status = "absent"
  /\ \E code \in SubmittedCodes \cup {"none"}, exact \in BOOLEAN,
        created \in {"incomplete", "active"}, reports \in BOOLEAN,
        pi \in BOOLEAN :
       LET v == IF code = "none" THEN "ok" ELSE validateCoupon(code, now)
           trial == code \in Codes /\ coupons[code].type = "free_trial"
           status == IF trial THEN "trialing" ELSE created
           subscription ==
             [status |-> status,
              currentPeriodStart |-> IF reports THEN now ELSE NoDate,
              currentPeriodEnd |->
                IF ~reports THEN NoDate
                ELSE IF trial THEN now + TrialTicks ELSE now + YearTicks,
              cancelAtPeriodEnd |-> FALSE,
              invoice |-> IF status = "incomplete" THEN "open" ELSE "paid",
              pi |-> pi /\ ~trial,
              couponCode |-> code,
              exact |-> exact \/ code = "none"]
       IN IF v # "ok"
          THEN /\ Done("createSubscriptionFailed", a)
               /\ UNCHANGED <<users, stripe>>
          ELSE /\ stripe' = subscription
               /\ users' = [users EXCEPT ![a] =
                    updateSubscriptionFromStripe(@,
                      DetailsOf(subscription, TRUE), now)]
               /\ Done("createSubscription", a)
  /\ UNCHANGED <<callVars, emails, now, guard, payVars, delivered, matchVars, introVars>>

\* the provider collects the open invoice; it then emits
\* invoice.payment_succeeded
ProviderCharge ==
  /\ stripe.invoice = "open"
  /\ stripe' = [stripe EXCEPT !.invoice = "paid", !.status = "active"]
  /\ last' = NoOp
  /\ UNCHANGED <<callVars, emails, now, users, guard, payVars, delivered, matchVars, introVars>>

\* the provider moves the subscription on: a failed renewal, a cancellation
\* at once or at the period end
ProviderUpdate ==
  /\ stripe.status \in {"active", "trialing", "past_due"}
  /\ \E st \in {"past_due", "canceled", stripe.status}, cape \in BOOLEAN :
       /\ (st # stripe.status \/ cape # stripe.cancelAtPeriodEnd)
       /\ stripe' = [stripe EXCEPT !.status = st, !.cancelAtPeriodEnd = cape]
  /\ last' = NoOp
  /\ UNCHANGED <<callVars, emails, now, users, guard, payVars, delivered, matchVars, introVars>>

\* PaymentService.finalizeSubscription
FinalizeSubscription(a) ==
  /\ stripe.status # "absent"
  /\ UsedBy(stripe) < MaxUsedCount
  /\ users' = [users EXCEPT ![a] =
       updateSubscriptionFromStripe(@, DetailsOf(stripe, TRUE), now)]
  /\ history' =
       IF stripe.status \in {"active", "trialing"}
       THEN recordPaymentHistoryFromSubscription(history, a, stripe)
       ELSE history
  /\ coupons' =
       IF stripe.invoice # "paid" THEN incrementCouponUsage(stripe)
       ELSE coupons
  /\ Done("finalizeSubscription", a)
  /\ UNCHANGED <<callVars, emails, now, guard, procs, hookVars, matchVars, introVars>>

\* handleWebhook, customer.subscription.created / updated / deleted with the
\* provider's object
SubscriptionEvent(a) ==
  /\ stripe.status # "absent"
  /\ \E pm \in BOOLEAN :
       LET r == handleStripeSubscriptionEvent(users[a], history, a, stripe,
                                              pm, now)
       IN /\ users' = [users EXCEPT ![a] = r.user]
          /\ history' = r.history
  /\ Done("subscriptionEvent", a)
  /\ UNCHANGED <<callVars, emails, now, guard, coupons, procs, hookVars, matchVars, introVars>>

\* handleWebhook, invoice.payment_succeeded for the invoice of the purchase.
\* ok = FALSE when the user id cannot be resolved or the retrieval of the
\* subscription throws: the handler then logs and changes nothing
InvoicePaymentSucceeded(a) ==
  /\ stripe.invoice = "paid"
  /\ delivered < MaxDeliveries
  /\ UsedBy(stripe) < MaxUsedCount
  /\ \E ok \in BOOLEAN, pm \in BOOLEAN :
       IF ok
       THEN LET r == handleStripeSubscriptionEvent(users[a], history, a,
                                                   stripe, pm, now)
            IN /\ users' = [users EXCEPT ![a] = r.user]
               /\ history' =
                    recordPaymentHistoryFromSubscription(r.history, a, stripe)
               /\ coupons' = incrementCouponUsage(stripe)
               /\ delivered' = delivered + 1
               /\ Done("invoicePaymentSucceeded", a)
       ELSE /\ Done("invoicePaymentSucceededFailed", a)
            /\ UNCHANGED <<users, history, coupons, delivered>>
  /\ UNCHANGED <<callVars, emails, now, guard, procs, stripe, matchVars, introVars>>

HookInit ==
  /\ SubInit
  /\ PayIdle
  /\ HookIdle
  /\ MatchIdle
  /\ JobIdle
  /\ IntroIdle
  /\ CallIdle

HookNext ==
  \/ Tick
  \/ CreateSubscription(Buyer)
  \/ ProviderCharge
  \/ ProviderUpdate
  \/ FinalizeSubscription(Buyer)
  \/ SubscriptionEvent(Buyer)
  \/ InvoicePaymentSucceeded(Buyer)

HookSpec == HookInit /\ [][HookNext]_vars

\* ------------------------------------------- invoice.payment_failed
\* paymentIntentId || `invoice-${invoice.id}`
failurePaymentId(subscription) ==
  IF subscription.pi THEN <<"pi", 1>> ELSE <<"invoice-in", 1>>

\* the document the handler hands to paymentHistoryModel.create
FailureEntry(userId, subscription) ==
  [userId |-> userId, provider |-> "stripe",
   paymentId |-> failurePaymentId(subscription),
   amount |-> 1, status |-> "failed", code |-> "none"]

\* the recording without the look-up of an existing entry
recordFailure_unchecked(h, userId, subscription) ==
  h (+) SetToBag({FailureEntry(userId, subscription)})

\* paymentHistoryModel.exists({ paymentId }) and, when there is none, create
recordFailure(h, userId, subscription) ==
  IF \E e \in BagToSet(h) : e.paymentId = failurePaymentId(subscription)
  THEN h
  ELSE h (+) SetToBag({FailureEntry(userId, subscription)})

\* updateSubscriptionFromStripe(userId, { subscriptionId, status: 'past_due' })
FailureDetails(subscriptionId) ==
  [subscriptionId |-> subscriptionId, status |-> "past_due",
   currentPeriodStart |-> NoDate, currentPeriodEnd |-> NoDate,
   paymentMethodId |-> FALSE]

\* handleWebhook, invoice.payment_failed for the open invoice of the
\* purchase.  resolved: the user id is found in the metadata of the invoice or
\* of its payment intent; hasSubscription: invoice.subscription is set; pays:
\* stripe.invoices.pay succeeds; mail: what sendPaymentFailedEmail does
InvoicePaymentFailed(a) ==
  /\ stripe.invoice = "open"
  /\ payFailed.deliveries < MaxDeliveries
  /\ \E resolved \in BOOLEAN, hasSubscription \in BOOLEAN, pays \in BOOLEAN,
        mail \in {"sent", "failed"} :
       LET attempt == resolved /\ hasSubscription
                        /\ users[a].defaultPaymentMethodId
           delivery == [NoFailure EXCEPT
                          !.deliveries = payFailed.deliveries + 1,
                          !.attempts = IF attempt THEN 1 ELSE 0]
       IN IF ~resolved
          THEN /\ payFailed' = delivery
               /\ Done("invoicePaymentFailedIgnored", a)
               /\ UNCHANGED <<users, history, stripe>>
          ELSE IF attempt /\ pays
          THEN /\ payFailed' = [delivery EXCEPT !.retry = "succeeded"]
               /\ stripe' = [stripe EXCEPT !.invoice = "paid",
                                           !.status = "active"]
               /\ Done("invoicePaymentFailed", a)
               /\ UNCHANGED <<users, history>>
          ELSE /\ payFailed' =
                    [delivery EXCEPT
                       !.retry = IF attempt THEN "failed" ELSE "none",
                       !.email = mail]
               /\ users' = [users EXCEPT ![a] =
                    updateSubscriptionFromStripe(@,
                      FailureDetails(hasSubscription
                                       \/ users[a].stripeSubscriptionId),
                      now)]
               /\ history' = recordFailure(history, a, stripe)
               /\ Done("invoicePaymentFailed", a)
               /\ UNCHANGED stripe
  /\ UNCHANGED <<confirmation, race, jobRun, emails, now, guard, coupons, procs,
                 delivered, matchVars, introVars>>

FailNext ==
  \/ Tick
  \/ CreateSubscription(Buyer)
  \/ ProviderCharge
  \/ ProviderUpdate
  \/ FinalizeSubscription(Buyer)
  \/ SubscriptionEvent(Buyer)
  \/ InvoicePaymentSucceeded(Buyer)
  \/ InvoicePaymentFailed(Buyer)

FailSpec == HookInit /\ [][FailNext]_vars

\* ============================================================== matching
\* The strings that occur in the profiles and sellers of the model.
CompanyNames == {"Acme", "Zenith"}

\* the position of a company name in the binary string order of the store
NameRank(name) ==
  CASE name = "Acme" -> 1
    [] name = "New Advisor" -> 2
    [] name = "Zenith" -> 3
    [] OTHER -> 0

\* String.prototype.toLowerCase on the strings of the model: the regular
\* expressions of findMatches carry the i flag
LowerCase(str) ==
  CASE str = "Technology" -> "technology"
    [] str = "United States" -> "united states"
    [] str = "United States > California" -> "united states > california"
    [] OTHER -> str

\* seller.geography.split('>')[0].trim()
FirstPart(geography) ==
  IF geography = "United States > California" THEN "United States"
  ELSE geography

\* the seller documents a query is made for
Sellers(revenues) ==
  [exists : {TRUE}, industry : {"Technology"},
   geography : {"United States > California"}, annualRevenue : revenues]

\* AdvisorsService.createEmptyProfile: the document it saves
emptyProfile(t) ==
  [exists |-> TRUE, companyName |-> "New Advisor", industries |-> {},
   geographies |-> {}, yearsExperience |-> 0,
   revenueRange |-> [min |-> 0, max |-> 0],
   isActive |-> FALSE, sendLeads |-> FALSE, workedWithCimamplify |-> FALSE,
   createdAt |-> t]

\* the document createProfile, updateProfile and updateFullProfile save when
\* the advisor has none: dto.x || default for every field
newProfile(dto, t) ==
  [exists |-> TRUE, companyName |-> dto.companyName,
   industries |-> dto.industries, geographies |-> dto.geographies,
   yearsExperience |-> dto.yearsExperience,
   revenueRange |-> dto.revenueRange,
   isActive |-> TRUE, sendLeads |-> dto.sendLeads,
   workedWithCimamplify |-> dto.workedWithCimamplify,
   createdAt |-> t]

\* the fields of a profile a request body can carry
DtoFields ==
  {"companyName", "industries", "geographies", "yearsExperience",
   "revenueRange", "sendLeads", "workedWithCimamplify"}

\* the update { [field]: value } applied to a stored profile
setField(profile, field, value) ==
  CASE field = "companyName" -> [profile EXCEPT !.companyName = value]
    [] field = "industries" -> [profile EXCEPT !.industries = value]
    [] field = "geographies" -> [profile EXCEPT !.geographies = value]
    [] field = "yearsExperience" -> [profile EXCEPT !.yearsExperience = value]
    [] field = "revenueRange" -> [profile EXCEPT !.revenueRange = value]
    [] field = "sendLeads" -> [profile EXCEPT !.sendLeads = value]
    [] field = "workedWithCimamplify" ->
         [profile EXCEPT !.workedWithCimamplify = value]

\* { ...createDto, isActive: true } applied to a stored profile
setAllFields(profile, dto) ==
  [newProfile(dto, profile.createdAt) EXCEPT !.isActive = TRUE]

\* ------------------------------------------------ MatchingService.findMatches
\* a query that leaves out the sendLeads condition
acceptsLeads_activeOnly(advisor) ==
  advisor.isActive = TRUE

\* isActive: true, sendLeads: true
acceptsLeads(advisor) ==
  /\ advisor.isActive = TRUE
  /\ advisor.sendLeads = TRUE

\* industries: { $regex: industryRegex }
industryMatches(advisor, seller) ==
  \E industry \in advisor.industries :
    LowerCase(industry) = LowerCase(seller.industry)

\* $or over the geography variants of the seller
geographyMatches(advisor, seller) ==
  \E geography \in advisor.geographies :
    \E variant \in {seller.geography, FirstPart(seller.geography)} :
      LowerCase(geography) = LowerCase(variant)

\* the revenue conditions with $lt / $gt in place of $lte / $gte
revenueMatches_strict(advisor, seller) ==
  /\ \/ (advisor.revenueRange.min # NoBound
           /\ advisor.revenueRange.min < seller.annualRevenue)
     \/ advisor.revenueRange.min = NoBound
  /\ \/ (advisor.revenueRange.max # NoBound
           /\ advisor.revenueRange.max > seller.annualRevenue)
     \/ advisor.revenueRange.max = NoBound

\* the two $or conditions on revenueRange.min and revenueRange.max
revenueMatches(advisor, seller) ==
  /\ \/ (advisor.revenueRange.min # NoBound
           /\ advisor.revenueRange.min <= seller.annualRevenue)
     \/ advisor.revenueRange.min = NoBound
  /\ \/ (advisor.revenueRange.max # NoBound
           /\ advisor.revenueRange.max >= seller.annualRevenue)
     \/ advisor.revenueRange.max = NoBound

\* the advisors the filter of the query selects
Selected(seller) ==
  {a \in Accounts :
     /\ advisors[a].exists
     /\ acceptsLeads(advisors[a])
     /\ industryMatches(advisors[a], seller)
     /\ geographyMatches(advisors[a], seller)
     /\ revenueMatches(advisors[a], seller)}

\* sort criteria that leave out the priority key
sortCriteria_secondaryOnly(sortBy) ==
  IF sortBy = "years" THEN << <<"yearsExperience", -1>> >>
  ELSE IF sortBy = "company" THEN << <<"companyName", 1>> >>
  ELSE << <<"createdAt", -1>> >>

\* the sort document: field and direction, in key order
sortCriteria(sortBy) ==
  IF sortBy = "years"
  THEN << <<"workedWithCimamplify", -1>>, <<"yearsExperience", -1>> >>
  ELSE IF sortBy = "company"
  THEN << <<"workedWithCimamplify", -1>>, <<"companyName", 1>> >>
  ELSE << <<"workedWithCimamplify", -1>>, <<"createdAt", -1>> >>

\* the value of a sort field in the order of the store (false < true)
SortKey(advisor, field) ==
  CASE field = "workedWithCimamplify" ->
         IF advisor.workedWithCimamplify THEN 1 ELSE 0
    [] field = "yearsExperience" -> advisor.yearsExperience
    [] field = "companyName" -> NameRank(advisor.companyName)
    [] field = "createdAt" -> advisor.createdAt

\* x has to come before y under the criteria
Precedes(x, y, criteria) ==
  \E i \in 1..Len(criteria) :
    /\ \A j \in 1..(i - 1) :
         SortKey(x, criteria[j][1]) = SortKey(y, criteria[j][1])
    /\ SortKey(x, criteria[i][1]) * criteria[i][2]
         < SortKey(y, criteria[i][1]) * criteria[i][2]

\* the orders in which the store may return the selected advisors: documents
\* that compare equal come in any order
Sorted(selected, criteria) ==
  {list \in [1..Cardinality(selected) -> selected] :
     /\ \A i, j \in 1..Cardinality(selected) : i # j => list[i] # list[j]
     /\ \A i, j \in 1..Cardinality(selected) :
          i < j => ~Precedes(advisors[list[j]], advisors[list[i]], criteria)}

\* query.skip(skip).limit(limit); page and limit are 0 when not given
Paginate(list, page, limit) ==
  IF limit > 0
  THEN LET currentPage == IF page > 0 THEN page ELSE 1
           skip == (currentPage - 1) * limit
           to == IF skip + limit < Len(list) THEN skip + limit ELSE Len(list)
       IN SubSeq(list, skip + 1, to)
  ELSE list

\* ------------------------------------------------------- AdvisorsService
\* Every profile request answers with the profile, so the response slot no
\* longer holds a matching result afterwards.

CreateEmptyProfile(a) ==
  /\ advisors' = [advisors EXCEPT ![a] =
       IF @.exists THEN @ ELSE emptyProfile(now)]
  /\ matches' = NoMatches
  /\ UNCHANGED <<callVars, emails, now, subVars, payVars, hookVars, introVars>>

\* createProfile with a body from dtos
CreateProfile(a, dtos) ==
  /\ \E dto \in dtos :
       advisors' = [advisors EXCEPT ![a] =
         IF @.exists THEN setAllFields(@, dto) ELSE newProfile(dto, now)]
  /\ matches' = NoMatches
  /\ UNCHANGED <<callVars, emails, now, subVars, payVars, hookVars, introVars>>

\* updateProfile: a stored profile gets the field the body carries; without
\* a stored profile the body has to carry every required field
UpdateProfile(a, dtos) ==
  /\ IF advisors[a].exists
     THEN \E field \in DtoFields :
            \E value \in {dto[field] : dto \in dtos} :
              advisors' = [advisors EXCEPT ![a] = setField(@, field, value)]
     ELSE \E dto \in dtos :
            advisors' = [advisors EXCEPT ![a] = newProfile(dto, now)]
  /\ matches' = NoMatches
  /\ UNCHANGED <<callVars, emails, now, subVars, payVars, hookVars, introVars>>

\* updateFullProfile: as updateProfile, but a stored profile is marked active
\* and the keys revenueRange[min] / revenueRange[max] set one bound
UpdateFullProfile(a, dtos) ==
  /\ IF advisors[a].exists
     THEN \/ \E field \in DtoFields :
               \E value \in {dto[field] : dto \in dtos} :
                 advisors' = [advisors EXCEPT ![a] =
                   [setField(@, field, value) EXCEPT !.isActive = TRUE]]
          \/ \E bound \in 0..MaxRevenue :
               \/ advisors' = [advisors EXCEPT ![a] =
                    [@ EXCEPT !.isActive = TRUE, !.revenueRange.min = bound]]
               \/ advisors' = [advisors EXCEPT ![a] =
                    [@ EXCEPT !.isActive = TRUE, !.revenueRange.max = bound]]
     ELSE \E dto \in dtos :
            advisors' = [advisors EXCEPT ![a] = newProfile(dto, now)]
  /\ matches' = NoMatches
  /\ UNCHANGED <<callVars, emails, now, subVars, payVars, hookVars, introVars>>

\* toggleLeadSending: NotFound when the advisor has no profile
ToggleLeadSending(a) ==
  /\ \E sendLeads \in BOOLEAN :
       advisors' = [advisors EXCEPT ![a] =
         IF @.exists THEN [@ EXCEPT !.sendLeads = sendLeads] ELSE @]
  /\ matches' = NoMatches
  /\ UNCHANGED <<callVars, emails, now, subVars, payVars, hookVars, introVars>>

\* a findMatches that also answers NotFound when no advisor is selected
findMatches_emptyNotFound(seller, sortBy, page, limit) ==
  IF ~seller.exists \/ Selected(seller) = {}
  THEN {[statusCode |-> 404, list |-> <<>>]}
  ELSE {[statusCode |-> 200, list |-> Paginate(list, page, limit)] :
          list \in Sorted(Selected(seller), sortCriteria(sortBy))}

\* MatchingService.findMatches: the answers the call can give for the seller
\* document found for the caller (NoSeller when findOne finds none)
findMatches(seller, sortBy, page, limit) ==
  IF ~seller.exists
  THEN {[statusCode |-> 404, list |-> <<>>]}
  ELSE {[statusCode |-> 200, list |-> Paginate(list, page, limit)] :
          list \in Sorted(Selected(seller), sortCriteria(sortBy))}

\* MatchingService.getMatchStats: findMatches(sellerId) and its length
getMatchStats(seller) ==
  findMatches(seller, "none", 0, 0)

\* the response slot after a matching query
MatchResponse(op, seller, sortBy, limit, answer) ==
  [NoMatches EXCEPT
     !.op = op, !.statusCode = answer.statusCode,
     !.annualRevenue = IF seller.exists THEN seller.annualRevenue ELSE 0,
     !.sortBy = sortBy, !.paged = limit > 0,
     !.list = answer.list, !.totalMatches = Len(answer.list)]

\* findMatches for a seller with a revenue from revenues, a sortBy from
\* sortBys and page / limit from pages
FindMatches(revenues, sortBys, pages) ==
  /\ \E seller \in Sellers(revenues), sortBy \in sortBys,
        page \in pages, limit \in pages :
       \E answer \in findMatches(seller, sortBy, page, limit) :
         matches' = MatchResponse("findMatches", seller, sortBy, limit, answer)
  /\ UNCHANGED <<callVars, emails, now, subVars, payVars, hookVars, introVars, advisors>>

\* getMatchStats for a seller with a revenue from revenues
GetMatchStats(revenues) ==
  /\ \E seller \in Sellers(revenues) :
       \E answer \in getMatchStats(seller) :
         matches' = MatchResponse("getMatchStats", seller, "none", 0, answer)
  /\ UNCHANGED <<callVars, emails, now, subVars, payVars, hookVars, introVars, advisors>>

\* the bounds a stored revenue range can have
Bounds == {NoBound} \cup (0..MaxRevenue)

\* request bodies that vary what the filter of the query reads
FilterDtos ==
  [companyName : {"New Advisor"},
   industries : {{"technology"}},
   geographies : {{"United States"}},
   yearsExperience : {0},
   revenueRange : [min : Bounds, max : Bounds],
   sendLeads : BOOLEAN,
   workedWithCimamplify : {FALSE}]

\* request bodies that vary what the sort of the query reads
SortDtos ==
  [companyName : CompanyNames,
   industries : {{"Technology"}},
   geographies : {{"United States > California"}},
   yearsExperience : 0..MaxYears,
   revenueRange : {[min |-> 0, max |-> NoBound]},
   sendLeads : {TRUE},
   workedWithCimamplify : BOOLEAN]

\* sortBy: the two named orders, another word, and none
SortBys == {"years", "company", "rating", "none"}

\* the advisor whose profile is also initialised empty and edited field by
\* field; the other one submits whole profiles and toggles its leads
Editors == {"adv1"}

MatchNext ==
  \/ \E a \in Editors : CreateEmptyProfile(a)
  \/ \E a \in Accounts : ToggleLeadSending(a)
  \/ \E a \in Accounts : CreateProfile(a, FilterDtos)
  \/ \E a \in Editors : UpdateProfile(a, FilterDtos)
  \/ \E a \in Editors : UpdateFullProfile(a, FilterDtos)
  \/ FindMatches(0..MaxRevenue, {"none"}, {0})
  \/ GetMatchStats(0..MaxRevenue)

MatchSpec == Init /\ [][MatchNext]_vars

SortNext ==
  \/ Tick
  \/ \E a \in Accounts : CreateProfile(a, SortDtos)
  \/ FindMatches({0}, SortBys, 0..MaxPage)

SortSpec == Init /\ [][SortNext]_vars

\* ================================================ sellers and introductions
\* SellersService.createProfile: Conflict when the seller has a profile,
\* otherwise the body is saved as the profile
CreateSellerProfile(s, revenues) ==
  /\ \E dto \in Sellers(revenues) :
       sellers' = [sellers EXCEPT ![s] = IF @.exists THEN @ ELSE dto]
  /\ matches' = NoMatches
  /\ UNCHANGED <<callVars, emails, now, subVars, payVars, hookVars, advisors,
                 connections, introductions>>

\* SellersService.updateProfile: findOneAndUpdate with the body; NotFound
\* when the seller has no profile
UpdateSellerProfile(s, revenues) ==
  /\ \E annualRevenue \in revenues :
       sellers' = [sellers EXCEPT ![s] =
         IF @.exists THEN [@ EXCEPT !.annualRevenue = annualRevenue] ELSE @]
  /\ matches' = NoMatches
  /\ UNCHANGED <<callVars, emails, now, subVars, payVars, hookVars, advisors,
                 connections, introductions>>

\* SellersService.deleteProfile: deleteOne; NotFound when nothing was deleted
DeleteSellerProfile(s) ==
  /\ sellers' = [sellers EXCEPT ![s] = NoSeller]
  /\ matches' = NoMatches
  /\ UNCHANGED <<callVars, emails, now, subVars, payVars, hookVars, advisors,
                 connections, introductions>>

\* MatchingController.findMatches for the calling seller account
FindMatchesFor(s, sortBys, pages) ==
  /\ \E sortBy \in sortBys, page \in pages, limit \in pages :
       \E answer \in findMatches(sellers[s], sortBy, page, limit) :
         matches' =
           MatchResponse("findMatches", sellers[s], sortBy, limit, answer)
  /\ UNCHANGED <<callVars, emails, now, subVars, payVars, hookVars, introVars, advisors>>

\* MatchingController.getMatchStats for the calling seller account
GetMatchStatsFor(s) ==
  /\ \E answer \in getMatchStats(sellers[s]) :
       matches' =
         MatchResponse("getMatchStats", sellers[s], "none", 0, answer)
  /\ UNCHANGED <<callVars, emails, now, subVars, payVars, hookVars, introVars, advisors>>

\* the elements of a list
Elements(list) == {list[i] : i \in 1..Len(list)}

\* IntroductionDto.advisorIds: the non-empty sets of ids a body can carry;
\* the id of an account without an advisor profile is the id of no advisor
IdSets == (SUBSET Accounts) \ {{}}

\* what happens to one selected advisor in the loop: the email is sent and the
\* connection created, sendEmail throws, or connectionModel.create throws
Deliveries == {"sent", "sendEmailThrows", "createThrows"}

\* a validation that only rejects the ids of no advisor
invalidIds_unknownOnly(advisorIds, matchedIds) ==
  {id \in advisorIds : ~advisors[id].exists}

\* introductionDto.advisorIds.filter((id) => !matchedIds.includes(id))
invalidIds(advisorIds, matchedIds) ==
  {id \in advisorIds : id \notin matchedIds}

\* advisorModel.find({ _id: { $in: advisorIds } })
selectedAdvisors(advisorIds) ==
  {id \in advisorIds : advisors[id].exists}

\* the response slot after sendIntroductions
IntroResponse(advisorIds, statusCode, emailsSent) ==
  [NoMatches EXCEPT
     !.op = "sendIntroductions", !.statusCode = statusCode,
     !.advisorIds = advisorIds, !.emailsSent = emailsSent]

\* a call that ends in an exception before the loop
IntroFails(advisorIds, statusCode) ==
  /\ matches' = IntroResponse(advisorIds, statusCode, 0)
  /\ UNCHANGED <<connections, introductions>>

\* the loop over the selected advisors
IntroLoop(s, advisorIds) ==
  \E outcome \in [selectedAdvisors(advisorIds) -> Deliveries] :
    LET emailed == {a \in DOMAIN outcome : outcome[a] # "sendEmailThrows"}
        created == {a \in DOMAIN outcome : outcome[a] = "sent"}
    IN /\ introductions' =
            [pair \in DOMAIN introductions |->
               IF pair[1] = s /\ pair[2] \in emailed
               THEN introductions[pair] + 1 ELSE introductions[pair]]
       /\ connections' =
            [pair \in DOMAIN connections |->
               IF pair[1] = s /\ pair[2] \in created
               THEN connections[pair] + 1 ELSE connections[pair]]
       /\ matches' = IntroResponse(advisorIds, 200, Cardinality(created))

\* ConnectionsService.sendIntroductions for the calling seller account
SendIntroductions(s) ==
  /\ \A a \in Accounts : introductions[<<s, a>>] < MaxIntroductions
  /\ \E advisorIds \in IdSets :
       \E answer \in findMatches(sellers[s], "none", 0, 0) :
         IF answer.statusCode = 404
         THEN IntroFails(advisorIds, 404)
         ELSE IF invalidIds(advisorIds, Elements(answer.list)) # {}
         THEN IntroFails(advisorIds, 400)
         ELSE IF selectedAdvisors(advisorIds) = {}
         THEN IntroFails(advisorIds, 404)
         ELSE \E templateRead \in BOOLEAN :
                IF templateRead THEN IntroLoop(s, advisorIds)
                ELSE IntroFails(advisorIds, 500)
  /\ UNCHANGED <<callVars, emails, now, subVars, payVars, hookVars, advisors, sellers>>

\* request bodies of advisors that vary whether a seller is matched
IntroDtos ==
  [companyName : {"Acme"},
   industries : {{"Technology"}},
   geographies : {{"United States"}},
   yearsExperience : {0},
   revenueRange : [min : {0}, max : Bounds \ {NoBound}],
   sendLeads : {TRUE},
   workedWithCimamplify : {FALSE}]

IntroNext ==
  \/ \E s \in SellerUsers : CreateSellerProfile(s, 0..MaxRevenue)
  \/ \E s \in SellerUsers : UpdateSellerProfile(s, 0..MaxRevenue)
  \/ \E s \in SellerUsers : DeleteSellerProfile(s)
  \/ \E a \in Accounts : CreateProfile(a, IntroDtos)
  \/ \E a \in Accounts : ToggleLeadSending(a)
  \/ \E s \in SellerUsers : FindMatchesFor(s, {"none"}, 0..1)
  \/ \E s \in SellerUsers : GetMatchStatsFor(s)
  \/ \E s \in SellerUsers : SendIntroductions(s)

IntroSpec == Init /\ [][IntroNext]_vars

\* ====================================================== profile activation
\* POST /advisors/profile, POST /advisors/init-profile and the payment
\* confirmation, none of which is behind the subscription guard
ProfileNext ==
  \/ \E a \in Accounts : MarkPaymentVerified(a)
  \/ \E a \in Accounts : CreateEmptyProfile(a)
  \/ \E a \in Accounts : CreateProfile(a, FilterDtos)

ProfileSpec == Init /\ [][ProfileNext]_vars

\* ========================================================== confirmPayment
\* The payment intents the provider holds for the accounts: each id has one
\* owner (metadata.userId), one coupon code (metadata.couponCode, "none" when
\* the intent was created without one) and one payment method; pm is TRUE
\* when the intent carries a payment method.  A succeeded intent stays
\* succeeded, and one that is not yet paid may be paid later.
IntentIds == {<<"pi", 2>>, <<"pi", 3>>, <<"pi", 4>>}

IntentStatuses == {"succeeded", "requires_payment_method"}

PaymentIntent(id, status) ==
  [id |-> id, status |-> status,
   userId |-> IF id = <<"pi", 4>> THEN "adv2" ELSE "adv1",
   couponCode |-> IF id = <<"pi", 2>> THEN "SAVE" ELSE "none",
   pm |-> id # <<"pi", 3>>]

\* UsersService.normalizeSubscription: the subscription sub-document is
\* replaced as a whole
normalizeSubscription(user, periodStart, periodEnd) ==
  [user EXCEPT
     !.status = "active",
     !.currentPeriodStart = periodStart,
     !.currentPeriodEnd = periodEnd,
     !.cancelAtPeriodEnd = FALSE,
     !.canceledAt = NoDate,
     !.expiryNotifiedAt = NoDate]

\* confirmPayment: "Ensure subscription period is valid", applied to the user
\* markPaymentVerified returned
normalizeGuard(user, t) ==
  IF ~hasValidCurrentCycle(user, t)
  THEN normalizeSubscription(user, t, t + YearTicks)
  ELSE user

\* the document confirmPayment hands to paymentHistoryModel.create
IntentEntry(userId, intent) ==
  [userId |-> userId, provider |-> "stripe", paymentId |-> intent.id,
   amount |-> 1, status |-> intent.status, code |-> intent.couponCode]

\* couponModel.findOneAndUpdate({ code: metadata.couponCode }, $inc)
confirmCouponUsage(intent) ==
  IF intent.couponCode = "none" THEN coupons
  ELSE incrementUsage(intent.couponCode, TRUE)

\* PaymentService.confirmPayment: the outcome of the call and what it leaves
\* in the stores
confirmPayment(userId, intent, t) ==
  IF intent.status # "succeeded" \/ intent.userId # userId
  THEN [success |-> FALSE, user |-> users[userId], history |-> history,
        coupons |-> coupons]
  ELSE [success |-> TRUE,
        user |-> normalizeGuard(
                   markPaymentVerified(users[userId], t, intent.pm), t),
        history |-> history (+) SetToBag({IntentEntry(userId, intent)}),
        coupons |-> confirmCouponUsage(intent)]

\* POST payment/confirm by account a with one of the intents
ConfirmPayment(a) ==
  /\ BagCardinality(history) < MaxHistory
  /\ \E id \in IntentIds, status \in IntentStatuses :
       LET r == confirmPayment(a, PaymentIntent(id, status), now)
       IN /\ \/ status = "succeeded"
             \/ ~HistoryExists(history, PaymentIntent(id, status).userId, id)
          /\ users' = [users EXCEPT ![a] = r.user]
          /\ history' = r.history
          /\ coupons' = r.coupons
          /\ confirmation' =
               [op |-> "confirmPayment", a |-> a, paymentIntentId |-> id,
                success |-> r.success]
  /\ Done("confirmPayment", a)
  /\ UNCHANGED <<payFailed, race, jobRun, emails, now, guard, procs, hookVars,
                 matchVars, introVars>>

ConfirmNext ==
  \/ Tick
  \/ \E a \in Accounts : ConfirmPayment(a)
  \/ \E a \in Accounts : CancelAtPeriodEnd(a)

ConfirmSpec == Init /\ [][ConfirmNext]_vars

\* ========================================================= scheduled jobs
\* the periods the provider reports while the jobs run: none, or any period
\* within the time the jobs are followed
JobWindows ==
  {<<NoDate, NoDate>>} \cup
  {w \in (0..MaxJobTime) \X (0..MaxJobTime) : w[1] < w[2]}

\* what a call of PaymentService.updatePaymentMethod meets at the provider:
\* a call that throws before the billing details are stored ("attach"), the
\* subscription update that throws ("update"), or the subscription object
\* that the update returns
RenewalOutcomes ==
  [throws : {"attach", "update"}] \cup
  [throws : {"no"}, status : ProviderStatuses, window : JobWindows,
   cancelAtPeriodEnd : BOOLEAN]

\* UsersService.updateBillingDetails
updateBillingDetails(user) ==
  [user EXCEPT !.defaultPaymentMethodId = TRUE]

\* PaymentService.updatePaymentMethod for a call that returns
updatePaymentMethod(user, outcome, t) ==
  IF user.stripeSubscriptionId
  THEN updateSubscriptionFromStripe(updateBillingDetails(user),
         [subscriptionId |-> TRUE,
          status |-> normalizeSubscriptionStatus(outcome.status),
          currentPeriodStart |-> outcome.window[1],
          currentPeriodEnd |-> outcome.window[2],
          cancelAtPeriodEnd |-> outcome.cancelAtPeriodEnd,
          paymentMethodId |-> TRUE], t)
  ELSE updateBillingDetails(user)

\* the user document a throwing call leaves behind; without a provider
\* subscription there is no subscription update that could throw
afterThrow(user, outcome) ==
  IF outcome.throws = "update" THEN updateBillingDetails(user) ELSE user

Throws(user, outcome) ==
  \/ outcome.throws = "attach"
  \/ outcome.throws = "update" /\ user.stripeSubscriptionId

\* the query of PaymentRetryService.handleExpiredSubscriptions
dueForRetry(user, t) ==
  /\ user.currentPeriodEnd # NoDate
  /\ user.currentPeriodEnd < t
  /\ user.status \in {"active", "past_due"}
  /\ user.defaultPaymentMethodId

\* PaymentRetryService.attemptRenewal
attemptRenewal(user, outcome, t) ==
  IF Throws(user, outcome)
  THEN [afterThrow(user, outcome) EXCEPT !.status = "expired"]
  ELSE updatePaymentMethod(user, [outcome EXCEPT !.throws = "no"], t)

\* UsersService.findAdvisorsWithExpiredSubscription
expiredUnnotified(user, reference) ==
  /\ user.status \in {"active", "trialing", "past_due"}
  /\ user.currentPeriodEnd # NoDate
  /\ user.currentPeriodEnd <= reference
  /\ user.expiryNotifiedAt = NoDate

\* UsersService.markSubscriptionStatus
markSubscriptionStatus(user, status, expiryNotifiedAt) ==
  [user EXCEPT
     !.status = status,
     !.cancelAtPeriodEnd = IF status = "expired" THEN TRUE ELSE @,
     !.expiryNotifiedAt =
        IF status = "expired" /\ expiryNotifiedAt # NoDate
        THEN expiryNotifiedAt ELSE @,
     !.isPaymentVerified = FALSE]

RunOp(op) == last' = [op |-> op, a |-> "adv1"]

\* the orders in which a query may return the documents it selects
Orders(selected) ==
  {list \in [1..Cardinality(selected) -> selected] :
     \A i, j \in 1..Cardinality(selected) : i # j => list[i] # list[j]}

\* a loop whose catch block throws the error on: the rest of the batch is
\* left out and the error leaves the job
afterItemError_rethrows(rest) ==
  [rest |-> <<>>, propagated |-> TRUE]

\* catch (error) { this.logger.error(...) } around the body of both loops:
\* the loop goes on with the rest of the batch
afterItemError(rest) ==
  [rest |-> rest, propagated |-> FALSE]

\* what is left to do after the body ran for the head of the batch
afterItem(thrown, rest) ==
  IF thrown THEN afterItemError(rest)
  ELSE [rest |-> rest, propagated |-> FALSE]

\* the start of a run over the accounts selected
StartRun(op, selected) ==
  [NoRun EXCEPT !.op = op, !.selected = selected]

\* for (const user of expiredUsers) { try { attemptRenewal(user) } catch .. }
\* on the documents the query returned; run.users is the collection.
\* attemptRenewal throws the error of the renewal on after its own catch
\* block has written the status
RECURSIVE retryLoop(_, _, _, _)
retryLoop(list, outcome, run, t) ==
  IF list = <<>> THEN run
  ELSE LET a == Head(list)
           thrown == Throws(run.users[a], outcome[a])
           after == afterItem(thrown, Tail(list))
       IN retryLoop(after.rest, outcome,
            [run EXCEPT
               !.users[a] = attemptRenewal(@, outcome[a], t),
               !.job.processed = @ \cup {a},
               !.job.failed = IF thrown THEN @ \cup {a} ELSE @,
               !.job.propagated = after.propagated], t)

\* the hourly run of PaymentRetryService.handleExpiredSubscriptions, the
\* provider answering each attempt with one of outcomes
RetryWith(outcomes) ==
  LET expiredUsers == {a \in Accounts : dueForRetry(users[a], now)}
  IN /\ \E outcome \in [expiredUsers -> outcomes],
           order \in Orders(expiredUsers) :
          LET run == retryLoop(order, outcome,
                       [users |-> users,
                        job |-> StartRun("retrySweep", expiredUsers)], now)
          IN /\ users' = run.users
             /\ jobRun' = run.job
     /\ RunOp("retrySweep")
     /\ UNCHANGED <<confirmation, payFailed, race, now, guard, payVars,
                    hookVars, matchVars, introVars, emails>>

RetryHandleExpiredSubscriptions == RetryWith(RenewalOutcomes)

\* for (const advisor of advisors) { try { sendSubscriptionExpiredEmail;
\* markSubscriptionStatus } catch .. }; sent[a] = FALSE when the mailer
\* throws for a
RECURSIVE notifyLoop(_, _, _, _)
notifyLoop(list, sent, run, t) ==
  IF list = <<>> THEN run
  ELSE LET a == Head(list)
           after == afterItem(~sent[a], Tail(list))
       IN notifyLoop(after.rest, sent,
            [run EXCEPT
               !.users[a] =
                  IF sent[a] THEN markSubscriptionStatus(@, "expired", t)
                  ELSE @,
               !.emails[a] = IF sent[a] THEN @ + 1 ELSE @,
               !.job.processed = @ \cup {a},
               !.job.failed = IF sent[a] THEN @ ELSE @ \cup {a},
               !.job.propagated = after.propagated], t)

\* the daily run of PaymentNotificationsService.handleExpiredSubscriptions
NotifyHandleExpiredSubscriptions ==
  LET selected == {a \in Accounts : expiredUnnotified(users[a], now)}
  IN /\ \A a \in selected : emails[a] < MaxEmails
     /\ \E sent \in [selected -> BOOLEAN], order \in Orders(selected) :
          LET run == notifyLoop(order, sent,
                       [users |-> users, emails |-> emails,
                        job |-> StartRun("notificationRun", selected)], now)
          IN /\ users' = run.users
             /\ emails' = run.emails
             /\ jobRun' = run.job
     /\ RunOp("notificationRun")
     /\ UNCHANGED <<confirmation, payFailed, race, now, guard, payVars,
                    hookVars, matchVars, introVars>>

\* POST payment/update-payment-method
UpdatePaymentMethodWith(a, outcomes) ==
  \E outcome \in outcomes :
    /\ users' = [users EXCEPT ![a] =
          IF Throws(users[a], outcome) THEN afterThrow(users[a], outcome)
          ELSE updatePaymentMethod(users[a], [outcome EXCEPT !.throws = "no"],
                                   now)]
    /\ Done("updatePaymentMethod", a)
    /\ UNCHANGED <<callVars, now, guard, payVars, hookVars, matchVars, introVars, emails>>

UpdatePaymentMethod(a) == UpdatePaymentMethodWith(a, RenewalOutcomes)

JobTick == TickTo(MaxJobTime)

JobNext ==
  \/ JobTick
  \/ \E a \in Subscribers : MarkPaymentVerified(a)
  \/ \E a \in Subscribers : HandleStripeSubscriptionEvent(a)
  \/ \E a \in Subscribers : CancelAtPeriodEnd(a)
  \/ \E a \in Subscribers : Resume(a)
  \/ \E a \in Subscribers : UpdatePaymentMethod(a)
  \/ RetryHandleExpiredSubscriptions
  \/ NotifyHandleExpiredSubscriptions

JobSpec == Init /\ [][JobNext]_vars

\* ------------------------------------------- after a canceled period ends
\* the provider's answers for a subscription whose charge has not gone
\* through: the call throws or the subscription comes back past_due
UnpaidOutcomes ==
  {o \in RenewalOutcomes : o.throws = "no" => o.status = "past_due"}

\* the account of a subscriber who canceled a subscription (sub) or a free
\* trial (no sub) for [0, 1) at 0, when that period has run out
LapsedUser(pm, sub) ==
  [NewUser EXCEPT
     !.status = "canceled",
     !.currentPeriodStart = 0,
     !.currentPeriodEnd = 1,
     !.cancelAtPeriodEnd = TRUE,
     !.canceledAt = 0,
     !.isPaymentVerified = TRUE,
     !.defaultPaymentMethodId = pm,
     !.stripeSubscriptionId = sub]

LapseInit ==
  /\ now = 1
  /\ \E pm \in BOOLEAN, sub \in BOOLEAN :
       users = [a \in Accounts |->
                  IF a \in Subscribers THEN LapsedUser(pm, sub) ELSE NewUser]
  /\ guard = [a \in Requesters |-> IdleGuard]
  /\ last = NoOp
  /\ PayIdle
  /\ HookIdle
  /\ MatchIdle
  /\ JobIdle
  /\ IntroIdle
  /\ CallIdle

\* every operation but a payment, a coupon redemption and a provider event
LapseNext ==
  \/ JobTick
  \/ \E a \in Subscribers : UpdatePaymentMethodWith(a, UnpaidOutcomes)
  \/ \E a \in Subscribers : Resume(a)
  \/ \E a \in Subscribers : CancelAtPeriodEnd(a)
  \/ \E a \in Subscribers : GuardLoad(a)
  \/ \E a \in Subscribers : GuardRenewWith(a, {"past_due"}, JobWindows)
  \/ \E a \in Subscribers : GuardRecheck(a)
  \/ \E a \in Subscribers : GuardReturn(a)
  \/ RetryWith(UnpaidOutcomes)
  \/ NotifyHandleExpiredSubscriptions

LapseSpec == LapseInit /\ [][LapseNext]_vars

\* ===================================================== concurrent renewal
\* The inline renewal of SubscriptionGuard (PaymentService.renewSubscription)
\* and the renewal of the hourly job (PaymentService.updatePaymentMethod inside
\* PaymentRetryService.attemptRenewal) for the same account, one step per
\* provider call and per write to the users collection.

\* the account both paths work on
Renewed == "adv1"

\* an account whose period [0, 1) has elapsed, with a stored payment method
\* and a provider subscription
ElapsedUser(status) ==
  [NewUser EXCEPT
     !.status = status,
     !.currentPeriodStart = 0,
     !.currentPeriodEnd = 1,
     !.isPaymentVerified = status = "active",
     !.defaultPaymentMethodId = TRUE,
     !.stripeSubscriptionId = TRUE]

\* the provider has moved the subscription into its next period, whose
\* invoice is open: the charge has failed or is still to be made
UnpaidSubscription(status, end) ==
  [NoSubscription EXCEPT
     !.status = status,
     !.currentPeriodStart = 1,
     !.currentPeriodEnd = end,
     !.invoice = "open"]

RaceInit ==
  /\ now = 2
  /\ \E status \in {"active", "past_due"} :
       users = [a \in Accounts |->
                  IF a = Renewed THEN ElapsedUser(status) ELSE NewUser]
  /\ \E status \in {"active", "past_due"}, end \in {3, 1 + YearTicks} :
       stripe = UnpaidSubscription(status, end)
  /\ guard = [a \in Requesters |-> IdleGuard]
  /\ last = NoOp
  /\ PayIdle
  /\ delivered = 0
  /\ MatchIdle
  /\ JobIdle
  /\ IntroIdle
  /\ confirmation = NoConfirmation
  /\ payFailed = NoFailure
  /\ race = NoRace
  /\ jobRun = NoRun

\* stripe.invoices.pay succeeds: the invoice is paid and the subscription
\* active
Paid(subscription) ==
  [subscription EXCEPT !.invoice = "paid", !.status = "active"]

\* the details both paths hand to updateSubscriptionFromStripe
SnapshotDetails(snap, cancelAtPeriodEnd, pm) ==
  [subscriptionId |-> TRUE,
   status |-> normalizeSubscriptionStatus(snap.status),
   currentPeriodStart |-> snap.currentPeriodStart,
   currentPeriodEnd |-> snap.currentPeriodEnd,
   cancelAtPeriodEnd |-> cancelAtPeriodEnd,
   paymentMethodId |-> pm]

RaceFrame ==
  UNCHANGED <<confirmation, payFailed, jobRun, emails, now, guard, payVars, delivered,
              matchVars, introVars>>

\* SubscriptionGuard.canActivate up to attemptAutoRenewal, and the checks at
\* the head of renewSubscription
InlineStart ==
  /\ race.inline.pc = "idle"
  /\ ~isSubscriptionActive(users[Renewed], now)
  /\ shouldAttemptRenewal(users[Renewed].status,
                          users[Renewed].defaultPaymentMethodId)
  /\ race' = [race EXCEPT !.inline.pc =
       IF users[Renewed].defaultPaymentMethodId
            /\ users[Renewed].stripeSubscriptionId
       THEN "pay" ELSE "failed"]
  /\ last' = NoOp
  /\ UNCHANGED <<users, stripe>>
  /\ RaceFrame

\* renewSubscription: subscriptions.retrieve and, for an unpaid latest
\* invoice, invoices.pay, which throws when the charge fails
InlinePay ==
  /\ race.inline.pc = "pay"
  /\ IF stripe.invoice = "open"
     THEN \E paid \in BOOLEAN :
            IF paid
            THEN /\ stripe' = Paid(stripe)
                 /\ race' = [race EXCEPT !.inline.pc = "update"]
            ELSE /\ race' = [race EXCEPT !.inline.pc = "failed"]
                 /\ UNCHANGED stripe
     ELSE /\ race' = [race EXCEPT !.inline.pc = "update"]
          /\ UNCHANGED stripe
  /\ last' = NoOp
  /\ UNCHANGED users
  /\ RaceFrame

\* renewSubscription: subscriptions.update with cancel_at_period_end false
InlineUpdate ==
  /\ race.inline.pc = "update"
  /\ \E ok \in BOOLEAN :
       IF ok
       THEN /\ stripe' = [stripe EXCEPT !.cancelAtPeriodEnd = FALSE]
            /\ race' = [race EXCEPT !.inline.pc = "write",
                                    !.inline.snap = stripe']
       ELSE /\ race' = [race EXCEPT !.inline.pc = "failed"]
            /\ UNCHANGED stripe
  /\ last' = NoOp
  /\ UNCHANGED users
  /\ RaceFrame

\* renewSubscription: updateSubscriptionFromStripe with the returned object
InlineWrite ==
  /\ race.inline.pc = "write"
  /\ users' = [users EXCEPT ![Renewed] =
       updateSubscriptionFromStripe(@,
         SnapshotDetails(race.inline.snap, FALSE, FALSE), now)]
  /\ race' = [race EXCEPT !.inline.pc = "done"]
  /\ Done("renewSubscription", Renewed)
  /\ UNCHANGED stripe
  /\ RaceFrame

\* PaymentRetryService.handleExpiredSubscriptions: the query selects the
\* account
SweepStart ==
  /\ race.sweeper.pc = "idle"
  /\ dueForRetry(users[Renewed], now)
  /\ race' = [race EXCEPT !.sweeper.pc = "update"]
  /\ last' = NoOp
  /\ UNCHANGED <<users, stripe>>
  /\ RaceFrame

\* updatePaymentMethod up to subscriptions.update: the provider calls before
\* the billing details are stored throw, or the subscription update throws,
\* or it returns the subscription object
SweepUpdate ==
  /\ race.sweeper.pc = "update"
  /\ \E throws \in {"attach", "update", "no"} :
       /\ users' = [users EXCEPT ![Renewed] =
            IF throws = "attach" THEN @ ELSE updateBillingDetails(@)]
       /\ race' = [race EXCEPT
            !.sweeper.pc = IF throws = "no" THEN "write" ELSE "catch",
            !.sweeper.snap = IF throws = "no" THEN stripe ELSE @]
  /\ last' = NoOp
  /\ UNCHANGED stripe
  /\ RaceFrame

\* updatePaymentMethod: updateSubscriptionFromStripe with the returned object;
\* autoChargeFailed when the stored status is then past_due or unpaid
SweepWrite ==
  /\ race.sweeper.pc = "write"
  /\ users' = [users EXCEPT ![Renewed] =
       updateSubscriptionFromStripe(@,
         SnapshotDetails(race.sweeper.snap,
                         race.sweeper.snap.cancelAtPeriodEnd, TRUE), now)]
  /\ race' = [race EXCEPT !.sweeper.pc =
       IF users'[Renewed].status \in {"past_due", "unpaid"}
       THEN "pay" ELSE "done"]
  /\ Done("updatePaymentMethod", Renewed)
  /\ UNCHANGED stripe
  /\ RaceFrame

\* updatePaymentMethod: invoices.pay for an unpaid latest invoice; an error is
\* logged and the call returns all the same
SweepPay ==
  /\ race.sweeper.pc = "pay"
  /\ IF stripe.invoice = "open"
     THEN \E paid \in BOOLEAN :
            stripe' = IF paid THEN Paid(stripe) ELSE stripe
     ELSE UNCHANGED stripe
  /\ race' = [race EXCEPT !.sweeper.pc = "done"]
  /\ last' = NoOp
  /\ UNCHANGED users
  /\ RaceFrame

\* attemptRenewal: the catch block
SweepCatch ==
  /\ race.sweeper.pc = "catch"
  /\ users' = [users EXCEPT ![Renewed].status = "expired"]
  /\ race' = [race EXCEPT !.sweeper.pc = "failed"]
  /\ Done("attemptRenewalFailed", Renewed)
  /\ UNCHANGED stripe
  /\ RaceFrame

RaceNext ==
  \/ InlineStart
  \/ InlinePay
  \/ InlineUpdate
  \/ InlineWrite
  \/ SweepStart
  \/ SweepUpdate
  \/ SweepWrite
  \/ SweepPay
  \/ SweepCatch

RaceSpec == RaceInit /\ [][RaceNext]_vars

\* ====================================================== batches of the jobs
\* Runs of the two scheduled jobs over a collection in which the period of
\* every advisor account has run out, so that the query of a run returns
\* more than one account.
BatchInit ==
  /\ now = 1
  /\ \E status \in [Accounts -> {"active", "past_due"}] :
       users = [a \in Accounts |-> ElapsedUser(status[a])]
  /\ guard = [a \in Requesters |-> IdleGuard]
  /\ last = NoOp
  /\ PayIdle
  /\ HookIdle
  /\ MatchIdle
  /\ JobIdle
  /\ IntroIdle
  /\ CallIdle

\* the provider's answers for a subscription that stays on: the call
\* throws, or the subscription comes back with a period, charged or not
BatchOutcomes ==
  {o \in RenewalOutcomes :
     o.throws = "no" =>
       /\ o.status \in {"active", "past_due"}
       /\ o.window # <<NoDate, NoDate>>
       /\ ~o.cancelAtPeriodEnd}

BatchNext ==
  \/ JobTick
  \/ RetryWith(BatchOutcomes)
  \/ NotifyHandleExpiredSubscriptions

BatchSpec == BatchInit /\ [][BatchNext]_vars

\* =================================================================== claims

\* the access rule as the specification states it
AccessRule(subscription, t) ==
  \/ /\ subscription.status \in {"active", "trialing"}
     /\ (subscription.currentPeriodEnd = NoDate \/ subscription.currentPeriodEnd > t)
  \/ /\ subscription.status = "canceled"
     /\ subscription.currentPeriodEnd # NoDate
     /\ subscription.currentPeriodEnd > t

\* a step in which the guard of account a loads the account and decides
GuardChecks(a) ==
  /\ guard[a].pc \in {"idle", "recheck"}
  /\ guard'[a] # guard[a]

\* C1: for an advisor account the guard lets a request through only when the
\* subscription it has just loaded satisfies the access rule, and its activity
\* check is true exactly for (active or trialing with no period end or a
\* period end later than now) or (canceled with a period end later than now).
C1_GuardAllowsOnlyActive ==
  [][\A a \in Accounts :
       GuardChecks(a) =>
         /\ guard'[a].active <=> AccessRule(users[a], now)
         /\ guard'[a].result = "allow" => AccessRule(users[a], now)
         /\ (users[a].status \notin {"active", "trialing", "canceled"}
               => ~guard'[a].active)
         /\ (users[a].currentPeriodEnd # NoDate /\ users[a].currentPeriodEnd <= now
               => ~guard'[a].active)]_vars

C1_Witness ==
  \E a \in Accounts :
    /\ guard[a].pc = "done"
    /\ guard[a].result = "allow"
    /\ users[a].status = "canceled"
    /\ users[a].currentPeriodEnd > now

\* C2: markPaymentVerified yields [oldEnd, oldEnd + 1 year) for a valid
\* ongoing cycle and [now, now + 1 year) otherwise, with status active,
\* cancelAtPeriodEnd false and isPaymentVerified true, and the new
\* currentPeriodEnd is never earlier than the old one.
C2_RenewalWindow ==
  [][\A a \in Accounts :
       (last'.op = "markPaymentVerified" /\ last'.a = a) =>
         LET old == users[a]
             new == users'[a]
             ongoing == /\ old.currentPeriodStart # NoDate
                        /\ old.currentPeriodEnd # NoDate
                        /\ old.currentPeriodStart <= now
                        /\ now < old.currentPeriodEnd
             from == IF ongoing THEN old.currentPeriodEnd ELSE now
         IN /\ new.currentPeriodStart = from
            /\ new.currentPeriodEnd = from + YearTicks
            /\ new.status = "active"
            /\ new.cancelAtPeriodEnd = FALSE
            /\ new.isPaymentVerified = TRUE
            /\ (old.currentPeriodEnd # NoDate
                  => new.currentPeriodEnd >= old.currentPeriodEnd)]_vars

\* C3: every coupon that has a usageLimit keeps usedCount <= usageLimit, and
\* of two redemption attempts on a coupon with usageLimit = 1 and usedCount = 0
\* that have both finished, exactly one succeeded and the other failed with
\* the usage-limit error.
C3_UsageCap ==
  /\ \A c \in Codes :
       coupons[c].usageLimit # 0 => coupons[c].usedCount <= coupons[c].usageLimit
  /\ \A c \in Codes :
       (/\ coupons[c].usageLimit = 1
        /\ \A p \in Procs : /\ procs[p].pc = "done" /\ procs[p].runs = 0
                            /\ procs[p].code = c /\ procs[p].exact
                            /\ procs[p].outcome \in
                                 {"success", "BadRequest: usage limit reached"})
       => \E p, q \in Procs :
            /\ p # q
            /\ procs[p].outcome = "success"
            /\ procs[q].outcome = "BadRequest: usage limit reached"

\* C4: a cancel on an account whose period end is in the future gives status
\* canceled and cancelAtPeriodEnd true and keeps currentPeriodEnd and
\* isPaymentVerified; for such a canceled account the guard allows a request
\* while now < currentPeriodEnd and rejects it once now >= currentPeriodEnd,
\* never attempting a renewal.
C4_CancelThenAccess ==
  [][\A a \in Accounts :
       /\ (/\ last'.op = "cancelAtPeriodEnd" /\ last'.a = a
           /\ users[a].currentPeriodEnd # NoDate
           /\ users[a].currentPeriodEnd > now)
          => /\ users'[a].status = "canceled"
             /\ users'[a].cancelAtPeriodEnd = TRUE
             /\ users'[a].currentPeriodEnd = users[a].currentPeriodEnd
             /\ users'[a].isPaymentVerified = users[a].isPaymentVerified
       /\ (/\ GuardChecks(a)
           /\ guard[a].pc = "idle"
           /\ users[a].status = "canceled"
           /\ users[a].cancelAtPeriodEnd
           /\ users[a].currentPeriodEnd # NoDate)
          => /\ guard'[a].pc = "done"
             /\ guard'[a].renewals = 0
             /\ (now < users[a].currentPeriodEnd => guard'[a].result = "allow")
             /\ (now >= users[a].currentPeriodEnd => guard'[a].result = "402")]_vars

C4_Witness ==
  \E a \in Accounts :
    /\ guard[a].pc = "done"
    /\ guard[a].result = "402"
    /\ guard[a].renewals = 0
    /\ users[a].status = "canceled"
    /\ users[a].cancelAtPeriodEnd
    /\ users[a].isPaymentVerified
    /\ users[a].defaultPaymentMethodId
    /\ users[a].canceledAt # NoDate
    /\ users[a].canceledAt < users[a].currentPeriodEnd
    /\ users[a].currentPeriodEnd <= now

\* C5: resume on an account whose period end is absent or not later than now
\* leaves the stored account as it was; resume on an account whose period end
\* is later than now sets status active, cancelAtPeriodEnd false and
\* isPaymentVerified true and keeps the period bounds.
C5_ResumeFrame ==
  [][\A a \in Accounts :
       (last'.op = "resume" /\ last'.a = a) =>
         IF users[a].currentPeriodEnd = NoDate \/ users[a].currentPeriodEnd <= now
         THEN users'[a] = users[a]
         ELSE /\ users'[a].status = "active"
              /\ users'[a].cancelAtPeriodEnd = FALSE
              /\ users'[a].isPaymentVerified = TRUE
              /\ users'[a].currentPeriodStart = users[a].currentPeriodStart
              /\ users'[a].currentPeriodEnd = users[a].currentPeriodEnd]_vars

C5_Witness ==
  \E a \in Accounts :
    /\ last.op = "resume" /\ last.a = a
    /\ users[a].status = "canceled"
    /\ users[a].canceledAt # NoDate
    /\ users[a].currentPeriodEnd # NoDate
    /\ users[a].currentPeriodEnd <= now

\* the payment-history entries of the buyer for the payment of the invoice
EntriesOfInvoice(h) ==
  LET e == HistoryEntry(Buyer, stripe)
      keys == {x \in BagToSet(h) :
                 x.userId = Buyer /\ x.paymentId = PaymentIdOf(stripe)}
  IN IF keys = {} THEN 0
     ELSE LET Sum[S \in SUBSET keys] ==
                IF S = {} THEN 0
                ELSE LET x == CHOOSE y \in S : TRUE
                     IN CopiesIn(x, h) + Sum[S \ {x}]
          IN Sum[keys]

\* C6: every processed delivery of the invoice.payment_succeeded event leaves
\* exactly one payment-history entry for the payment of that invoice, and a
\* delivery that directly follows a delivery of the same event changes neither
\* the stored account nor the payment history.
C6_WebhookReplay ==
  [][last'.op = "invoicePaymentSucceeded" =>
       /\ EntriesOfInvoice(history') = 1
       /\ (last.op = "invoicePaymentSucceeded"
             => users' = users /\ history' = history)]_vars

C6_Witness ==
  /\ last.op = "invoicePaymentSucceeded"
  /\ delivered = 2
  /\ EntriesOfInvoice(history) = 1
  /\ users[Buyer].status = "active"

\* C7: over the finalizeSubscription calls and the invoice.payment_succeeded
\* deliveries of one purchase the usedCount of its coupon goes up by exactly
\* one: never above one, and one once the paid invoice has been processed.
C7_OneIncrementPerCharge ==
  \A c \in Codes :
    (stripe.couponCode = c /\ stripe.exact) =>
      /\ coupons[c].usedCount <= 1
      /\ (delivered >= 1 => coupons[c].usedCount = 1)

\* the position of an advisor in the list of the response, 0 when absent
Listed(a) == \E i \in 1..Len(matches.list) : matches.list[i] = a

\* C8: in a list findMatches returns, for every sortBy, no advisor with
\* workedWithCimamplify false comes before one with workedWithCimamplify
\* true, and two advisors with the same flag come by yearsExperience
\* descending for sortBy years, by companyName ascending for sortBy company
\* and by creation time descending for any other or no sortBy.
C8_PriorityThenSortBy ==
  matches.op = "findMatches" =>
    \A i, j \in 1..Len(matches.list) :
      i < j =>
        LET x == advisors[matches.list[i]]
            y == advisors[matches.list[j]]
        IN /\ ~(~x.workedWithCimamplify /\ y.workedWithCimamplify)
           /\ (x.workedWithCimamplify = y.workedWithCimamplify =>
                 IF matches.sortBy = "years"
                 THEN x.yearsExperience >= y.yearsExperience
                 ELSE IF matches.sortBy = "company"
                 THEN NameRank(x.companyName) <= NameRank(y.companyName)
                 ELSE x.createdAt >= y.createdAt)

C8_Witness ==
  /\ matches.op = "findMatches"
  /\ matches.sortBy = "years"
  /\ Len(matches.list) = 2
  /\ advisors[matches.list[1]].workedWithCimamplify
  /\ ~advisors[matches.list[2]].workedWithCimamplify
  /\ advisors[matches.list[1]].yearsExperience
       < advisors[matches.list[2]].yearsExperience

\* the seller a response was computed for
SellerOf(response) ==
  [industry |-> "Technology", geography |-> "United States > California",
   annualRevenue |-> response.annualRevenue]

\* the revenue rule as the specification states it
InRange(advisor, annualRevenue) ==
  /\ (advisor.revenueRange.min = NoBound
        \/ advisor.revenueRange.min <= annualRevenue)
  /\ (advisor.revenueRange.max = NoBound
        \/ advisor.revenueRange.max >= annualRevenue)

\* C9: an advisor is in the result only if the seller's annualRevenue lies in
\* its revenueRange, both bounds inclusive and a missing bound unbounded; an
\* advisor that passes the other conditions and has min <= annualRevenue <=
\* max (equality included) is in the unpaginated result.
C9_RevenueInclusive ==
  matches.op # "none" =>
    \A a \in Accounts :
      /\ Listed(a) => InRange(advisors[a], matches.annualRevenue)
      /\ (/\ advisors[a].exists
          /\ ~matches.paged
          /\ advisors[a].isActive /\ advisors[a].sendLeads
          /\ industryMatches(advisors[a], SellerOf(matches))
          /\ geographyMatches(advisors[a], SellerOf(matches))
          /\ InRange(advisors[a], matches.annualRevenue))
         => Listed(a)

C9_Witness ==
  /\ matches.op = "findMatches"
  /\ \E a, b \in Accounts :
       /\ Listed(a)
       /\ advisors[a].revenueRange.min = matches.annualRevenue
       /\ advisors[a].revenueRange.max = NoBound
       /\ ~Listed(b)
       /\ advisors[b].exists
       /\ advisors[b].isActive /\ advisors[b].sendLeads
       /\ industryMatches(advisors[b], SellerOf(matches))
       /\ geographyMatches(advisors[b], SellerOf(matches))
       /\ advisors[b].revenueRange.min # NoBound
       /\ advisors[b].revenueRange.min > matches.annualRevenue

\* C10: every advisor findMatches returns or getMatchStats counts has
\* isActive and sendLeads true when the query runs; an advisor with either
\* flag false is in no result, whatever its other fields.
C10_OnlyLeadAccepting ==
  matches.op # "none" =>
    /\ matches.totalMatches = Len(matches.list)
    /\ \A a \in Accounts :
         Listed(a) =>
           /\ advisors[a].exists
           /\ advisors[a].isActive = TRUE
           /\ advisors[a].sendLeads = TRUE

C10_Witness ==
  /\ matches.op = "getMatchStats"
  /\ matches.totalMatches = 1
  /\ \E a, b \in Accounts :
       /\ Listed(a)
       /\ ~Listed(b)
       /\ advisors[b].exists
       /\ advisors[b].isActive /\ ~advisors[b].sendLeads
       /\ industryMatches(advisors[b], SellerOf(matches))
       /\ geographyMatches(advisors[b], SellerOf(matches))
       /\ InRange(advisors[b], matches.annualRevenue)

\* the accounts the hourly run that has just finished selected
SweptBy(a) ==
  /\ last'.op = "retrySweep"
  /\ dueForRetry(users[a], now)

\* C11: when the hourly sweeper attempts a renewal for an account and the
\* renewal does not succeed (the call throws, or the provider leaves the
\* subscription past_due or unpaid), the account's status becomes expired and
\* the next sweep does not select the account again.
C11_FailedSweepExpires ==
  [][\A a \in Accounts :
       (SweptBy(a) /\ users'[a].status \in {"expired", "past_due", "unpaid"})
         => /\ users'[a].status = "expired"
            /\ ~dueForRetry(users'[a], now')]_vars

\* the period of a subscription that has not been canceled has elapsed and no
\* notice has gone out for it
ElapsedUnnotified(user, t) ==
  /\ user.status \in {"active", "trialing", "past_due", "unpaid", "expired"}
  /\ user.currentPeriodEnd # NoDate
  /\ user.currentPeriodEnd <= t
  /\ user.expiryNotifiedAt = NoDate

\* C12: an advisor whose period has elapsed and who has not been notified is
\* notified by the next run of the daily notification job: the run hands the
\* expiry notice to the mailer, or (the mailer failing) leaves the advisor
\* selected for the run after it.
C12_NotifiedByNextRun ==
  [][\A a \in Accounts :
       (last'.op = "notificationRun" /\ ElapsedUnnotified(users[a], now))
         => \/ emails'[a] = emails[a] + 1
            \/ expiredUnnotified(users'[a], now')]_vars

\* C13: an account that has had status canceled with currentPeriodEnd <= now
\* fails the access predicate for as long as no payment succeeds and no
\* coupon is redeemed for it: resume calls, guard requests, hourly sweeps,
\* daily notification runs and payment-method updates do not make it active.
C13_NoAccessAfterLapse ==
  \A a \in Subscribers : ~isSubscriptionActive(users[a], now)

\* a step in which the guard of account a ends the request
GuardDecides(a) ==
  /\ guard[a].pc # "done"
  /\ guard'[a].pc = "done"

\* what the guard has read, or reads in this step, of the payment method
LoadedPaymentMethod(a) ==
  IF guard[a].pc = "idle" THEN users[a].defaultPaymentMethodId
  ELSE guard[a].hasPaymentMethod

\* C14: a request of an advisor that the guard does not allow ends with the
\* 402 error whose body has code SUBSCRIPTION_EXPIRED, a redirectTo and
\* hasPaymentMethod as in the account the guard loaded; so does a request
\* whose inline renewal throws.
C14_DenialIs402 ==
  [][\A a \in Accounts :
       (GuardDecides(a) /\ guard'[a].result # "allow")
         => /\ guard'[a].result = "402"
            /\ guard'[a].error.statusCode = 402
            /\ guard'[a].error.code = "SUBSCRIPTION_EXPIRED"
            /\ guard'[a].error.redirectTo = "/advisor-payments"
            /\ guard'[a].error.hasPaymentMethod = LoadedPaymentMethod(a)]_vars

\* a request has been denied after its renewal attempt threw
C14_Witness ==
  \E a \in Accounts :
    /\ guard[a].pc = "done"
    /\ guard[a].result = "402"
    /\ guard[a].renewals = 1
    /\ guard[a].hasPaymentMethod
    /\ guard[a].error = SubscriptionExpired(TRUE)

\* C15: within one request the guard calls renewSubscription at most once,
\* and only for an advisor whose loaded subscription is not active, has a
\* status other than canceled and has a default payment method; a request of
\* a seller is allowed without a load of the account and without a renewal.
C15_RenewalOnceAndOnlyWhenDue ==
  [][/\ \A a \in Accounts :
          /\ guard'[a].renewals <= 1
          /\ guard'[a].renewals > guard[a].renewals => guard[a].pc = "renewing"
          /\ (guard[a].pc = "idle" /\ guard'[a].pc # "idle")
               => (guard'[a].pc = "renewing"
                     <=> /\ role(a) = "advisor"
                         /\ ~AccessRule(users[a], now)
                         /\ users[a].status # "canceled"
                         /\ users[a].defaultPaymentMethodId)
     /\ \A s \in SellerUsers :
          guard'[s].pc # "idle"
            => /\ guard'[s].result = "allow"
               /\ ~guard'[s].loaded
               /\ guard'[s].renewals = 0]_vars

\* a request has gone through its single renewal, and a seller's request has
\* been let through
C15_Witness ==
  /\ \E a \in Accounts : guard[a].pc = "recheck" /\ guard[a].renewals = 1
  /\ \E s \in SellerUsers : guard[s].pc = "done" /\ guard[s].result = "allow"

\* the active coupons whose code is the submitted one but for the case of its
\* letters and the blanks around it
SameCode(submitted) ==
  {c \in Codes : coupons[c].isActive /\ normalizedCode(submitted) = Letters[c]}

\* a step in which the call p of redeemCoupon gets through validateCoupon and
\* the type check, or is stopped by them
Validates(p) ==
  /\ procs[p].pc = "idle"
  /\ procs'[p].pc # "idle"

\* C16: coupon validation fails with NotFound when the submitted code is the
\* code of no active coupon, whatever the case of its letters; with a bad
\* request when that coupon has an expiresAt in the past; with a bad request
\* when its usageLimit is set and usedCount >= usageLimit; and a redeemCoupon
\* call that fails validation changes no subscription, no payment history and
\* no usedCount.
C16_ValidationOutcome ==
  [][\A p \in Procs :
       Validates(p) =>
         LET submitted == procs'[p].submitted
             outcome == procs'[p].outcome
         IN /\ SameCode(submitted) = {} => outcome = "NotFound"
            /\ \A c \in SameCode(submitted) :
                 /\ (coupons[c].expiresAt # NoDate /\ coupons[c].expiresAt < now)
                      => outcome = "BadRequest: expired"
                 /\ (/\ ~(coupons[c].expiresAt # NoDate
                          /\ coupons[c].expiresAt < now)
                     /\ coupons[c].usageLimit # 0
                     /\ coupons[c].usedCount >= coupons[c].usageLimit)
                      => outcome = "BadRequest: usage limit reached"
            /\ outcome # "none"
                 => /\ procs'[p].pc = "done"
                    /\ UNCHANGED <<users, history, coupons>>]_vars

\* the trial activations in the payment history of an account
TrialEntries(h, a) ==
  {e \in BagToSet(h) :
     e.userId = a /\ e.provider = "coupon" /\ e.amount = 0
       /\ e.status = "succeeded"}

\* the number of payment-history documents of an account
EntriesOf(h, a) ==
  LET mine == {e \in BagToSet(h) : e.userId = a}
      RECURSIVE Sum(_)
      Sum(S) == IF S = {} THEN 0
                ELSE LET e == CHOOSE x \in S : TRUE
                     IN CopiesIn(e, h) + Sum(S \ {e})
  IN Sum(mine)

\* C20: redeemCoupon goes on only with a valid coupon of type free_trial; a
\* valid coupon of another type is rejected with a bad request and nothing
\* is changed.  The write of the trial gives the account status active,
\* cancelAtPeriodEnd false, isPaymentVerified true and the window
\* [now, now + 30 days), not the year; the call adds one payment-history
\* entry, of amount 0 and status succeeded, and a call that has succeeded
\* has gone through both.
C20_TrialRedemption ==
  [][\A p \in Procs :
       LET a == Acct(p) IN
       /\ Validates(p) =>
            /\ procs'[p].outcome = "none"
                 => /\ procs'[p].code \in Codes
                    /\ coupons[procs'[p].code].type = "free_trial"
                    /\ validateCoupon(procs'[p].code, now) = "ok"
            /\ (/\ procs'[p].code \in Codes
                /\ validateCoupon(procs'[p].code, now) = "ok"
                /\ coupons[procs'[p].code].type # "free_trial")
                 => /\ procs'[p].outcome = "BadRequest: not a free trial"
                    /\ procs'[p].pc = "done"
                    /\ UNCHANGED <<users, history, coupons>>
       /\ (procs[p].pc = "trial" /\ procs'[p].pc = "history")
            => /\ users'[a].status = "active"
               /\ ~users'[a].cancelAtPeriodEnd
               /\ users'[a].isPaymentVerified
               /\ users'[a].currentPeriodStart = now
               /\ users'[a].currentPeriodEnd = now + TrialTicks
       /\ (procs[p].pc = "history" /\ procs'[p].pc # "history")
            => /\ EntriesOf(history', a) = EntriesOf(history, a) + 1
               /\ TrialEntries(history', a) # {}
               /\ \A e \in BagToSet(history') :
                    CopiesIn(e, history') > CopiesIn(e, history)
                      => e \in TrialEntries(history', a)
       /\ (procs[p].pc # "history" \/ procs'[p].pc = "history")
            => EntriesOf(history', a) = EntriesOf(history, a)
       /\ procs'[p].outcome = "success"
            => /\ users'[a].status = "active"
               /\ ~users'[a].cancelAtPeriodEnd
               /\ users'[a].isPaymentVerified
               /\ users'[a].currentPeriodEnd
                    = users'[a].currentPeriodStart + TrialTicks
               /\ users'[a].currentPeriodStart <= now
               /\ TrialEntries(history', a) # {}]_vars

\* a redemption has succeeded and the account is in its trial
C20_Witness ==
  \E p \in Procs :
    /\ procs[p].pc = "done"
    /\ procs[p].outcome = "success"
    /\ users[Acct(p)].status = "active"
    /\ users[Acct(p)].currentPeriodEnd
         = users[Acct(p)].currentPeriodStart + TrialTicks
    /\ TrialEntries(history, Acct(p)) # {}

\* ---------------------------------------------------------------- C17
\* the advisors the query selects for the profile stored for account s
CurrentMatches(s) ==
  IF sellers[s].exists THEN Selected(sellers[s]) ELSE {}

\* C17: findMatches and getMatchStats answer NotFound exactly when the calling
\* account has no seller profile; for an account with a seller profile they
\* answer with a list of selected advisors, which is the empty list (and not
\* an error) when the query selects no advisor.
C17_NotFoundIffNoSellerProfile ==
  [][matches'.op \in {"findMatches", "getMatchStats"} =>
       \A s \in SellerUsers :
         /\ (matches'.statusCode = 404) <=> ~sellers[s].exists
         /\ sellers[s].exists =>
              /\ matches'.statusCode = 200
              /\ Elements(matches'.list) \subseteq CurrentMatches(s)
              /\ ~matches'.paged =>
                   Elements(matches'.list) = CurrentMatches(s)
              /\ CurrentMatches(s) = {} => matches'.list = <<>>]_vars

\* a seller with a profile that no advisor matches has been answered with
\* the empty list
C17_Witness ==
  /\ matches.op \in {"findMatches", "getMatchStats"}
  /\ \E s \in SellerUsers :
       /\ sellers[s].exists
       /\ CurrentMatches(s) = {}
       /\ \E a \in Accounts : advisors[a].exists
  /\ matches.statusCode = 200
  /\ matches.list = <<>>

\* ---------------------------------------------------------------- C18
\* C18: sendIntroductions hands an introduction email to the mailer and
\* creates a connection record only for requested advisors that are in the
\* seller's current match set; when at least one requested id is not in the
\* current matches of a seller with a profile, the call fails with status 400
\* and no email is sent and no connection record is created.
C18_OnlyCurrentMatchesIntroduced ==
  [][matches'.op = "sendIntroductions" =>
       \A s \in SellerUsers :
         /\ \A a \in Accounts :
              (\/ introductions'[<<s, a>>] # introductions[<<s, a>>]
               \/ connections'[<<s, a>>] # connections[<<s, a>>])
                => /\ a \in matches'.advisorIds
                   /\ a \in CurrentMatches(s)
         /\ (sellers[s].exists
               /\ matches'.advisorIds \ CurrentMatches(s) # {})
              => /\ matches'.statusCode = 400
                 /\ UNCHANGED <<introductions, connections>>]_vars

\* a request naming a matched advisor together with one that is not matched
\* has been rejected
C18_Witness ==
  /\ matches.op = "sendIntroductions"
  /\ matches.statusCode = 400
  /\ \E s \in SellerUsers :
       /\ matches.advisorIds \cap CurrentMatches(s) # {}
       /\ \E a \in matches.advisorIds \ CurrentMatches(s) : advisors[a].exists

\* ---------------------------------------------------------------- C19
\* the account has had no payment confirmed and has redeemed no coupon
NeverPaid(a) ==
  /\ ~users[a].isPaymentVerified
  /\ EntriesOf(history, a) = 0

\* C19: the advisor profile of an account that has made no payment and has
\* redeemed no coupon is not active: createProfile saves it with
\* isActive = false, and it is active only after a payment confirmation or a
\* coupon redemption for the account.
C19_InactiveUntilPaid ==
  \A a \in Accounts :
    (advisors[a].exists /\ NeverPaid(a)) => ~advisors[a].isActive

\* ---------------------------------------------------------------- C21
\* the step is a confirmPayment call of account a that succeeded
Confirms(a) ==
  /\ last'.op = "confirmPayment"
  /\ last'.a = a
  /\ confirmation'.op = "confirmPayment"
  /\ confirmation'.a = a
  /\ confirmation'.success

\* C21: after confirmPayment succeeds for an account that had a valid ongoing
\* cycle [start, end) with start <= now < end, the stored window is
\* [end, end + 1 year): the new currentPeriodEnd is never earlier than the old
\* end plus one year.
C21_ConfirmRenewsFromOldEnd ==
  [][\A a \in Accounts :
       (Confirms(a) /\ hasValidCurrentCycle(users[a], now))
         => /\ users'[a].currentPeriodStart = users[a].currentPeriodEnd
            /\ users'[a].currentPeriodEnd
                 = users[a].currentPeriodEnd + YearTicks]_vars

\* ---------------------------------------------------------------- C24
\* C24: in every reachable state the payment history holds at most one entry
\* per user and provider paymentId, also after repeated calls with the same
\* payment intent.
C24_OneEntryPerPaymentId ==
  \A e \in BagToSet(history) :
    /\ CopiesIn(e, history) = 1
    /\ \A f \in BagToSet(history) :
         (f.userId = e.userId /\ f.paymentId = e.paymentId) => f = e

\* ---------------------------------------------------------------- C29
\* C29: a second confirmPayment call with the same succeeded payment intent
\* leaves the subscription window, the payment history and the coupon's
\* usedCount as they were after the first call.
C29_ConfirmIdempotent ==
  [][\A a \in Accounts :
       (Confirms(a)
          /\ HistoryExists(history, a, confirmation'.paymentIntentId))
         => /\ users'[a].currentPeriodStart = users[a].currentPeriodStart
            /\ users'[a].currentPeriodEnd = users[a].currentPeriodEnd
            /\ history' = history
            /\ coupons' = coupons]_vars

\* ---------------------------------------------------------------- C22
\* the verification flag the rule gives for a stored document at time t
VerifiedRule(user, t) ==
  \/ user.status \in {"active", "trialing"}
  \/ /\ user.status = "canceled"
     /\ user.currentPeriodEnd # NoDate
     /\ user.currentPeriodEnd > t

\* C22: after every updateSubscriptionFromStripe call (here: the one of a
\* subscription event), isPaymentVerified is true if the resulting status is
\* active or trialing, for canceled it is true exactly when the
\* currentPeriodEnd stored after the merge is later than now, and it is false
\* for every other status; a period bound that the update does not carry
\* keeps its stored value, and reaching active or trialing clears
\* expiryNotifiedAt.
C22_VerifiedAfterMerge ==
  [][\A a \in Accounts :
       (last'.op = "subscriptionEvent" /\ last'.a = a)
         => /\ users'[a].isPaymentVerified = VerifiedRule(users'[a], now)
            /\ users'[a].status \in {"active", "trialing"}
                 => users'[a].expiryNotifiedAt = NoDate
            /\ users[a].currentPeriodStart # NoDate
                 => users'[a].currentPeriodStart # NoDate
            /\ users[a].currentPeriodEnd # NoDate
                 => users'[a].currentPeriodEnd # NoDate]_vars

BothFinished ==
  /\ race.inline.pc = "done"
  /\ race.sweeper.pc = "done"

\* C25: when the inline renewal of the guard and the renewal of the hourly
\* job run concurrently for one account, then once both have finished the
\* account's stored status and period bounds equal the provider's state of
\* the subscription, in every interleaving.
C25_RenewalsConverge ==
  BothFinished =>
    /\ users[Renewed].status = normalizeSubscriptionStatus(stripe.status)
    /\ users[Renewed].currentPeriodStart = stripe.currentPeriodStart
    /\ users[Renewed].currentPeriodEnd = stripe.currentPeriodEnd

\* C26: in a run of the hourly sweeper and in a run of the daily
\* notification job, the loop body runs for every account the query of the
\* run selected, whether or not the body threw for an account before it, and
\* no error leaves the job.
C26_EverySelectedAccountProcessed ==
  jobRun.op \in {"retrySweep", "notificationRun"} =>
    /\ jobRun.processed = jobRun.selected
    /\ ~jobRun.propagated

\* a sweep over two accounts in which attemptRenewal threw for one of them,
\* which is expired, and the other one came out of its renewal active with
\* a period that has not run out
C26_Witness ==
  /\ jobRun.op = "retrySweep"
  /\ Cardinality(jobRun.selected) = 2
  /\ Cardinality(jobRun.failed) = 1
  /\ jobRun.processed = jobRun.selected
  /\ \A a \in jobRun.failed : users[a].status = "expired"
  /\ \E a \in jobRun.selected \ jobRun.failed :
       /\ users[a].status = "active"
       /\ users[a].currentPeriodEnd >= now

\* C27: every step that changes the status of an account to expired is a run
\* of the hourly sweeper that selected the account, its period having run
\* out, and whose renewal for the account failed; no other operation sets an
\* account expired.
C27_ExpiredOnlyAfterFailedSweep ==
  [][\A a \in Accounts :
       users[a].status # "expired" /\ users'[a].status = "expired" =>
         /\ last'.op = "retrySweep"
         /\ dueForRetry(users[a], now)
         /\ a \in jobRun'.failed]_vars

\* C28: the step that ends a successful redeemCoupon call adds exactly one
\* to usedCount of the coupon validation found, whenever the submitted
\* string is that coupon's code in any letter case and with any blanks
\* around it, and leaves every other coupon alone.
C28_RedemptionCountsOnce ==
  [][\A p \in Procs :
       (/\ procs[p].pc = "increment"
        /\ procs'[p].outcome = "success"
        /\ normalizedCode(procs[p].submitted) = Letters[procs[p].code])
         => /\ coupons'[procs[p].code].usedCount
                 = coupons[procs[p].code].usedCount + 1
            /\ \A c \in Codes \ {procs[p].code} : coupons'[c] = coupons[c]]_vars

\* the statuses in which an account has no paid period
UnpaidStatuses ==
  {"none", "past_due", "unpaid", "expired", "incomplete",
   "incomplete_expired"}

\* PaymentVerifiedGuard.canActivate for the stored account
PaymentVerifiedGuardAdmits(a) == users[a].isPaymentVerified

\* C30: in every reachable state an account whose status is none, past_due,
\* unpaid, expired, incomplete or incomplete_expired has isPaymentVerified
\* false, so PaymentVerifiedGuard does not admit it.
C30_UnpaidStatusNotVerified ==
  \A a \in Accounts :
    users[a].status \in UnpaidStatuses => ~PaymentVerifiedGuardAdmits(a)

============================================================================
